---- MODULE Spec2Model ----
(***************************************************************************)
(* Model of the streaming extraction pipeline of wiktionary-dump-parser:   *)
(* the XML event filter, the schema state machine of src/parser/mod.rs,    *)
(* the JSON sink and error log, and the lexical classifier of              *)
(* src/parser/words/mod.rs.                                                *)
(***************************************************************************)
EXTENDS Integers, Sequences, FiniteSets, TLC

(***************************************************************************)
(* Strings and the regex vocabulary.                                       *)
(*                                                                         *)
(* Every pattern of words/mod.rs is used through Regex::is_match, which is *)
(* an unanchored search.  Under an unanchored search an optional tail (a   *)
(* plural s, the ive of Gerundive, the number after Pronunciation) or a    *)
(* leading or trailing wildcard never                                      *)
(* changes the answer, so each pattern is the set of its literal           *)
(* alternatives (optional tails removed, letter-case groups expanded), and *)
(* a string matches when it contains one of them.                          *)
(***************************************************************************)
Contains(s, lit) ==
    \E i \in 1..(Len(s) - Len(lit) + 1) : SubSeq(s, i, i + Len(lit) - 1) = lit

starts_with(s, prefix) ==
    Len(s) >= Len(prefix) /\ SubSeq(s, 1, Len(prefix)) = prefix

is_match(pattern, s) == \E lit \in pattern : Contains(s, lit)

IGNORED_PATTERN ==
    {"Wiktionary:", "Appendix:", "Help:", "Rhymes:", "Template:", "MediaWiki:",
     "Citations:", "Module:", "Reconstruction:", "Thesaurus:", "Concordance:",
     "/derived terms"}

WORD_TYPE_PATTERN ==
    {"Word", "Noun", "Proper noun", "Dependent noun", "Prenoun", "Participle",
     "Gerund", "Verb", "Preverb", "Predicative", "Conjugation", "Adjective",
     "Comparative-only adjectives", "Determinative", "Adverb", "Adnominal",
     "Inflection", "Pronoun", "Preposition", "Postposition", "Ambiposition",
     "Circumposition", "Conjunction", "Initial", "Prefix", "Suffix", "Final",
     "Affix", "Infix", "Interfix", "Circumfix", "Clitic", "Article", "Particle",
     "Locative", "Determiner", "Classifier", "Subordinate modifier",
     "Contraction", "Combining form", "Compound part", "Enclitic", "Relative",
     "Phrase", "Propositional phrase", "Proverb", "Idiom", "Honorific title",
     "Ideophone", "Phonogram", "Onomatopoeia", "Phoneme", "Ligature",
     "Syllable", "Letter", "Symbol", "Counter", "Number", "Numeral",
     "Multiple parts of speech", "Punctuation mark", "Diacritical mark", "Root"}

IGNORED_LANGUAGE_PATTERN == {"Translingual"}

IGNORED_SUBSECTION_PATTERN ==
    {"Variant spellings", "Relational forms", "Spelling variants", "Other usage",
     "Other versions", "Possessed forms", "Graphical notes", "Design",
     "Echo word", "From", "Description", "Derived characters", "Derived",
     "Derivatives", "Alternate spelling", "Accentuation notes",
     "Accentological notes", "Usage", "Citation", "Example", "Sources",
     "User note", "Work to be done", "Stem", "Sign values", "Reconstruction",
     "Production", "Logogram", "Holonym", "Meronyms", "Form",
     "Dialectal synonym", "Decadent", "Abbreviation", "Borrowed term",
     "External Link", "External link", "Related word", "Standard form",
     "Nom glyph origin", "Reading", "Synonym", "Antonym", "Hyponym",
     "Hypernym", "Paronym", "Translation", "Coordinate term",
     "Dialectal variant", "Romanization", "Statistic", "Declension",
     "Alternative script", "Phrasal verb", "Trivia", "Han character", "Hanzi",
     "Glyph origin", "Definition", "Compound", "Descendant", "Kanji", "Hanja",
     "Note", "Derived term", "Derived Term", "Usage notes", "Alternative forms",
     "Alternative", "Etymology", "Pronunciation", "Further reading", "Anagrams",
     "Reference", "Refs", "Further reference", "Seealso", "SeeAlso",
     "See also", "See Also", "Mutation", "Interjection", "Quotations",
     "Gallery", "Related term", "Related Term"}

(***************************************************************************)
(* The word consumer and the error consumer.  A run of the classifier      *)
(* threads the record st through the code: st.delivered is the sequence of *)
(* Words the word consumer was invoked with, st.failed says that the last  *)
(* invocation returned a failure, st.errors is what the error consumer     *)
(* received.  The caller-provided consumer fails exactly at the            *)
(* invocations whose number is in `failing`.                               *)
(***************************************************************************)
Word(word, language_english_name, word_type) ==
    [word |-> word, language_english_name |-> language_english_name,
     word_type |-> word_type]

\* What the two consumers have received: the Words, the errors, and, in
\* order, which of the two consumers each invocation went to.
NoOutput == [delivered |-> <<>>, failed |-> FALSE, errors |-> <<>>, order |-> <<>>]

\* Mutant: a failure of the consumer is not passed on.
result_consumer_forgiving(st, w, failing) ==
    [st EXCEPT !.delivered = Append(@, w), !.order = Append(@, "word")]

result_consumer(st, w, failing) ==
    [st EXCEPT !.delivered = Append(@, w),
               !.failed = (Len(st.delivered) + 1) \in failing,
               !.order = Append(@, "word")]

error_consumer(st, error) ==
    [st EXCEPT !.errors = Append(@, error), !.order = Append(@, "error")]

(***************************************************************************)
(* parse_details_subsection: one pass over the direct children of          *)
(* details_subsection, from child i on; a consumer failure returns at once.*)
(***************************************************************************)
\* Mutant: every section that is not ignored counts as a word type.
details_step_unfiltered(word, language_english_name, details_section, st, failing) ==
    LET word_type == details_section.headline.label IN
    IF is_match(IGNORED_SUBSECTION_PATTERN, word_type)
    THEN st
    ELSE result_consumer(st, Word(word, language_english_name, word_type), failing)

\* Mutant: a section that is neither a word type nor ignored is passed over.
details_step_silent(word, language_english_name, details_section, st, failing) ==
    LET word_type == details_section.headline.label IN
    IF is_match(WORD_TYPE_PATTERN, word_type)
    THEN result_consumer(st, Word(word, language_english_name, word_type), failing)
    ELSE st

details_step(word, language_english_name, details_section, st, failing) ==
    LET word_type == details_section.headline.label IN
    IF is_match(WORD_TYPE_PATTERN, word_type)
    THEN result_consumer(st, Word(word, language_english_name, word_type), failing)
    ELSE IF is_match(IGNORED_SUBSECTION_PATTERN, word_type)
    THEN st
    ELSE error_consumer(st, "Unknown details subsection: " \o word_type)

RECURSIVE details_loop(_, _, _, _, _, _)
details_loop(word, language_english_name, subsections, i, st, failing) ==
    IF i > Len(subsections) \/ st.failed
    THEN st
    ELSE details_loop(word, language_english_name, subsections, i + 1,
             details_step(word, language_english_name, subsections[i], st, failing),
             failing)

parse_details_subsection(word, language_english_name, details_subsection, st, failing) ==
    details_loop(word, language_english_name, details_subsection.subsections, 1,
                 st, failing)

(***************************************************************************)
(* parse_language_subsection.  ls is the loop state: the two flags, the    *)
(* buffered errors and the consumers' record.                              *)
(***************************************************************************)
\* Mutant: a top-level child is also walked as a parent of details.
language_step_recursing(word, language_english_name, unknown_subsection, ls, failing) ==
    LET label == unknown_subsection.headline.label IN
    IF label = "Etymology" \/ is_match(WORD_TYPE_PATTERN, label)
    THEN [ls EXCEPT !.toplevel_details = TRUE,
                    !.st = parse_details_subsection(word, language_english_name,
                               unknown_subsection, ls.st, failing)]
    ELSE IF label # "Etymology" /\ starts_with(label, "Etymology")
    THEN [ls EXCEPT !.bottomlevel_details = TRUE,
                    !.st = parse_details_subsection(word, language_english_name,
                               unknown_subsection, ls.st, failing)]
    ELSE IF is_match(IGNORED_SUBSECTION_PATTERN, label)
    THEN ls
    ELSE [ls EXCEPT !.bottomlevel_errors =
                        Append(@, "Unknown subsection of language: " \o label)]

\* Mutant: a numbered Etymology child only sets the flag.
language_step_deferred(word, language_english_name, unknown_subsection, ls, failing) ==
    LET label == unknown_subsection.headline.label IN
    IF label = "Etymology" \/ is_match(WORD_TYPE_PATTERN, label)
    THEN [ls EXCEPT !.toplevel_details = TRUE]
    ELSE IF label # "Etymology" /\ starts_with(label, "Etymology")
    THEN [ls EXCEPT !.bottomlevel_details = TRUE]
    ELSE IF is_match(IGNORED_SUBSECTION_PATTERN, label)
    THEN ls
    ELSE [ls EXCEPT !.bottomlevel_errors =
                        Append(@, "Unknown subsection of language: " \o label)]

\* Mutant: an unknown subsection is reported at once instead of buffered.
language_step_unbuffered(word, language_english_name, unknown_subsection, ls, failing) ==
    LET label == unknown_subsection.headline.label IN
    IF label = "Etymology" \/ is_match(WORD_TYPE_PATTERN, label)
    THEN [ls EXCEPT !.toplevel_details = TRUE]
    ELSE IF label # "Etymology" /\ starts_with(label, "Etymology")
    THEN [ls EXCEPT !.bottomlevel_details = TRUE,
                    !.st = parse_details_subsection(word, language_english_name,
                               unknown_subsection, ls.st, failing)]
    ELSE IF is_match(IGNORED_SUBSECTION_PATTERN, label)
    THEN ls
    ELSE [ls EXCEPT !.st = error_consumer(ls.st,
                               "Unknown subsection of language: " \o label)]

\* Mutant: the test for a label starting with "Etymology" comes first.
language_step_etymology_first(word, language_english_name, unknown_subsection, ls, failing) ==
    LET label == unknown_subsection.headline.label IN
    IF label # "Etymology" /\ starts_with(label, "Etymology")
    THEN [ls EXCEPT !.bottomlevel_details = TRUE,
                    !.st = parse_details_subsection(word, language_english_name,
                               unknown_subsection, ls.st, failing)]
    ELSE IF label = "Etymology" \/ is_match(WORD_TYPE_PATTERN, label)
    THEN [ls EXCEPT !.toplevel_details = TRUE]
    ELSE IF is_match(IGNORED_SUBSECTION_PATTERN, label)
    THEN ls
    ELSE [ls EXCEPT !.bottomlevel_errors =
                        Append(@, "Unknown subsection of language: " \o label)]

language_step(word, language_english_name, unknown_subsection, ls, failing) ==
    LET label == unknown_subsection.headline.label IN
    IF label = "Etymology" \/ is_match(WORD_TYPE_PATTERN, label)
    THEN [ls EXCEPT !.toplevel_details = TRUE]
    ELSE IF label # "Etymology" /\ starts_with(label, "Etymology")
    THEN [ls EXCEPT !.bottomlevel_details = TRUE,
                    !.st = parse_details_subsection(word, language_english_name,
                               unknown_subsection, ls.st, failing)]
    ELSE IF is_match(IGNORED_SUBSECTION_PATTERN, label)
    THEN ls
    ELSE [ls EXCEPT !.bottomlevel_errors =
                        Append(@, "Unknown subsection of language: " \o label)]

RECURSIVE language_loop(_, _, _, _, _, _)
language_loop(word, language_english_name, subsections, i, ls, failing) ==
    IF i > Len(subsections) \/ ls.st.failed
    THEN ls
    ELSE language_loop(word, language_english_name, subsections, i + 1,
             language_step(word, language_english_name, subsections[i], ls, failing),
             failing)

RECURSIVE flush_errors(_, _, _)
flush_errors(st, errors, i) ==
    IF i > Len(errors) THEN st
    ELSE flush_errors(error_consumer(st, errors[i]), errors, i + 1)

\* Mutant: "Found both" is reported when either flag is set.
language_after_pass_either(word, language_english_name, language_subsection, ls, failing) ==
    LET st1 == IF ls.toplevel_details
               THEN parse_details_subsection(word, language_english_name,
                        language_subsection, ls.st, failing)
               ELSE ls.st
    IN  IF st1.failed THEN st1
        ELSE LET st2 == IF ls.toplevel_details \/ ls.bottomlevel_details
                        THEN error_consumer(st1,
                                 "Found both toplevel and bottomlevel details for language "
                                 \o language_english_name)
                        ELSE st1
             IN  IF ls.bottomlevel_details
                 THEN flush_errors(st2, ls.bottomlevel_errors, 1)
                 ELSE st2

\* Mutant: the buffered errors are handed over whatever the section holds.
language_after_pass_flushing(word, language_english_name, language_subsection, ls, failing) ==
    LET st1 == IF ls.toplevel_details
               THEN parse_details_subsection(word, language_english_name,
                        language_subsection, ls.st, failing)
               ELSE ls.st
    IN  IF st1.failed THEN st1
        ELSE LET st2 == IF ls.toplevel_details /\ ls.bottomlevel_details
                        THEN error_consumer(st1,
                                 "Found both toplevel and bottomlevel details for language "
                                 \o language_english_name)
                        ELSE st1
             IN  flush_errors(st2, ls.bottomlevel_errors, 1)

language_after_pass(word, language_english_name, language_subsection, ls, failing) ==
    LET st1 == IF ls.toplevel_details
               THEN parse_details_subsection(word, language_english_name,
                        language_subsection, ls.st, failing)
               ELSE ls.st
    IN  IF st1.failed THEN st1
        ELSE LET st2 == IF ls.toplevel_details /\ ls.bottomlevel_details
                        THEN error_consumer(st1,
                                 "Found both toplevel and bottomlevel details for language "
                                 \o language_english_name)
                        ELSE st1
             IN  IF ls.bottomlevel_details
                 THEN flush_errors(st2, ls.bottomlevel_errors, 1)
                 ELSE st2

\* Mutant: a language section without children is walked like any other.
parse_language_subsection_nostub(word, language_subsection, st, failing) ==
    LET language_english_name == language_subsection.headline.label IN
    IF is_match(IGNORED_LANGUAGE_PATTERN, language_english_name)
    THEN st
    ELSE LET ls == language_loop(word, language_english_name,
                       language_subsection.subsections, 1,
                       [toplevel_details |-> FALSE, bottomlevel_details |-> FALSE,
                        bottomlevel_errors |-> <<>>, st |-> st],
                       failing)
         IN  IF ls.st.failed THEN ls.st
             ELSE language_after_pass(word, language_english_name,
                      language_subsection, ls, failing)

\* Mutant: the section's own word types are delivered before the pass.
parse_language_subsection_toplevel_first(word, language_subsection, st, failing) ==
    LET language_english_name == language_subsection.headline.label IN
    IF is_match(IGNORED_LANGUAGE_PATTERN, language_english_name)
    THEN st
    ELSE IF language_subsection.subsections = <<>>
    THEN result_consumer(st, Word(word, language_english_name, "Unknown"), failing)
    ELSE LET flags == language_loop(word, language_english_name,
                          language_subsection.subsections, 1,
                          [toplevel_details |-> FALSE, bottomlevel_details |-> FALSE,
                           bottomlevel_errors |-> <<>>, st |-> st],
                          failing)
             st1 == IF flags.toplevel_details
                    THEN parse_details_subsection(word, language_english_name,
                             language_subsection, st, failing)
                    ELSE st
             ls == language_loop(word, language_english_name,
                       language_subsection.subsections, 1,
                       [toplevel_details |-> FALSE, bottomlevel_details |-> FALSE,
                        bottomlevel_errors |-> <<>>, st |-> st1],
                       failing)
         IN  IF ls.st.failed THEN ls.st
             ELSE language_after_pass(word, language_english_name, language_subsection,
                      [ls EXCEPT !.toplevel_details = FALSE], failing)

parse_language_subsection(word, language_subsection, st, failing) ==
    LET language_english_name == language_subsection.headline.label IN
    IF is_match(IGNORED_LANGUAGE_PATTERN, language_english_name)
    THEN st
    ELSE IF language_subsection.subsections = <<>>
    THEN result_consumer(st, Word(word, language_english_name, "Unknown"), failing)
    ELSE LET ls == language_loop(word, language_english_name,
                       language_subsection.subsections, 1,
                       [toplevel_details |-> FALSE, bottomlevel_details |-> FALSE,
                        bottomlevel_errors |-> <<>>, st |-> st],
                       failing)
         IN  IF ls.st.failed THEN ls.st
             ELSE language_after_pass(word, language_english_name,
                      language_subsection, ls, failing)

(***************************************************************************)
(* wikitext_to_words: the consumers' record after the call; the call       *)
(* returns Err exactly when the record is failed.                          *)
(***************************************************************************)
RECURSIVE root_loop(_, _, _, _, _)
root_loop(word, subsections, i, st, failing) ==
    IF i > Len(subsections) \/ st.failed
    THEN st
    ELSE root_loop(word, subsections, i + 1,
             parse_language_subsection(word, subsections[i], st, failing), failing)

\* Mutant: a root that is not at level 1 makes the call fail.
wikitext_to_words_strict(title, wikitext, failing) ==
    IF is_match(IGNORED_PATTERN, title)
    THEN NoOutput
    ELSE LET root_section == wikitext.root_section IN
         IF root_section.headline.level = 1
         THEN root_loop(root_section.headline.label, root_section.subsections, 1,
                        NoOutput, failing)
         ELSE [error_consumer(NoOutput, "Root section is not at headline level 1")
                  EXCEPT !.failed = TRUE]

\* Mutant: a root at another level is reported and walked all the same.
wikitext_to_words_lenient(title, wikitext, failing) ==
    IF is_match(IGNORED_PATTERN, title)
    THEN NoOutput
    ELSE LET root_section == wikitext.root_section IN
         root_loop(root_section.headline.label, root_section.subsections, 1,
                   IF root_section.headline.level = 1
                   THEN NoOutput
                   ELSE error_consumer(NoOutput, "Root section is not at headline level 1"),
                   failing)

wikitext_to_words(title, wikitext, failing) ==
    IF is_match(IGNORED_PATTERN, title)
    THEN NoOutput
    ELSE LET root_section == wikitext.root_section IN
         IF root_section.headline.level = 1
         THEN root_loop(root_section.headline.label, root_section.subsections, 1,
                        NoOutput, failing)
         ELSE error_consumer(NoOutput, "Root section is not at headline level 1")

(***************************************************************************)
(* Inputs of the classifier: page titles and wikitext trees.  A tree is    *)
(* what the external wikitext parser returns: a root section with a        *)
(* headline (level, label) and an ordered list of subsections.             *)
(***************************************************************************)
Section(level, label, subsections) ==
    [headline |-> [level |-> level, label |-> label], subsections |-> subsections]

MaxSubsections == 2

Titles == {"cat", "Template:foo"}

RootLevels == {1, 2}

LanguageLabels == {"English", "Translingual", "Old Translingual"}

SubsectionLabels ==
    {"Etymology", "Etymology 1", "Etymology Noun", "Noun", "Pronunciation", "Foo"}

\* The lists of sections found below a subsection of a language section
\* (level 4, and one section of level 5 below them).
DetailLists ==
    { <<>>,
      <<Section(4, "Noun", <<>>)>>,
      <<Section(4, "Noun", <<>>), Section(4, "Verb", <<>>)>>,
      <<Section(4, "Synonyms", <<>>), Section(4, "Verb", <<>>)>>,
      <<Section(4, "Bar", <<>>)>>,
      <<Section(4, "Noun", <<Section(5, "Adverb", <<>>)>>)>> }

Subsections == { Section(3, label, details) : label \in SubsectionLabels, details \in DetailLists }

\* Every sequence over S of length n.
SeqOfLen(S, n) == [1..n -> S]

\* Language sections with at most one subsection, itself with at most one section.
SmallLanguageSections ==
    { Section(2, label, subsections) :
        label \in LanguageLabels,
        subsections \in {<<>>} \cup
            { <<s>> : s \in { t \in Subsections :
                                /\ Len(t.subsections) <= 1
                                /\ \A j \in DOMAIN t.subsections :
                                       t.subsections[j].subsections = <<>> } } }

\* The subsections of a small root: no language section, or one or two small ones.
SmallRoots ==
    {<<>>} \cup { <<a>> : a \in SmallLanguageSections }
           \cup { <<a, b>> : a \in SmallLanguageSections, b \in SmallLanguageSections }

Wikitext(level, subsections) == [root_section |-> Section(level, "cat", subsections)]

\* The consumer never fails, or fails at its first or at its second invocation.
Failings == {{}, {1}, {2}}

(***************************************************************************)
(* XML events.  Start and Empty carry a name and their attributes (a       *)
(* sequence of <<key, value>> pairs), End a name, Text its characters.     *)
(* Comment, CData, Decl, PI and DocType are the events the filter drops.   *)
(***************************************************************************)
Event(kind, name, attrs, text) ==
    [kind |-> kind, name |-> name, attrs |-> attrs, text |-> text]

Start(name) == Event("Start", name, <<>>, "")
StartWith(name, attrs) == Event("Start", name, attrs, "")
End(name) == Event("End", name, <<>>, "")
Empty(name) == Event("Empty", name, <<>>, "")
EmptyWith(name, attrs) == Event("Empty", name, attrs, "")
Text(text) == Event("Text", "", <<>>, text)
Eof == Event("Eof", "", <<>>, "")

\* u8::is_ascii_whitespace: space, tab, line feed, form feed, carriage return.
is_ascii_whitespace(c) == c \in {" ", "\t", "\n", "\f", "\r"}

\* read_relevant_event, Event::Text: forwarded when some byte is not whitespace.
relevant_text(text) ==
    \E i \in 1..Len(text) : ~is_ascii_whitespace(SubSeq(text, i, i))

\* Mutant: every Text event is forwarded, also one of white space only.
relevant_any_text(event) == event.kind \in {"Start", "End", "Empty", "Eof", "Text"}

relevant(event) ==
    \/ event.kind \in {"Start", "End", "Empty", "Eof"}
    \/ event.kind = "Text" /\ relevant_text(event.text)

\* read_relevant_event: the position of the first relevant event at or after
\* position p of the events; every event before it is read and dropped.
RECURSIVE next_relevant(_, _)
next_relevant(events, p) ==
    IF relevant(events[p]) THEN p ELSE next_relevant(events, p + 1)

(***************************************************************************)
(* Option values: <<>> is None, <<v>> is Some(v).                          *)
(***************************************************************************)
None == <<>>
Some(v) == <<v>>

(***************************************************************************)
(* str::parse::<i64>() and str::parse::<usize>().  An integer is kept as   *)
(* its canonical decimal text (no sign for zero, no leading zeros), since  *)
(* 64-bit values do not fit the integers of the model checker.             *)
(***************************************************************************)
Digits == {"0", "1", "2", "3", "4", "5", "6", "7", "8", "9"}

DigitValue(c) ==
    CASE c = "0" -> 0 [] c = "1" -> 1 [] c = "2" -> 2 [] c = "3" -> 3
      [] c = "4" -> 4 [] c = "5" -> 5 [] c = "6" -> 6 [] c = "7" -> 7
      [] c = "8" -> 8 [] c = "9" -> 9

all_digits(s) == \A i \in 1..Len(s) : SubSeq(s, i, i) \in Digits

RECURSIVE strip_zeros(_)
strip_zeros(s) ==
    IF Len(s) > 1 /\ SubSeq(s, 1, 1) = "0" THEN strip_zeros(SubSeq(s, 2, Len(s))) ELSE s

\* a <= b for two digit strings without leading zeros.
RECURSIVE digits_leq(_, _)
digits_leq(a, b) ==
    IF Len(a) # Len(b) THEN Len(a) < Len(b)
    ELSE IF Len(a) = 0 THEN TRUE
    ELSE LET x == DigitValue(SubSeq(a, 1, 1))
             y == DigitValue(SubSeq(b, 1, 1))
         IN  IF x # y THEN x < y
             ELSE digits_leq(SubSeq(a, 2, Len(a)), SubSeq(b, 2, Len(b)))

I64_MAX == "9223372036854775807"
I64_MIN_MAGNITUDE == "9223372036854775808"
USIZE_MAX == "18446744073709551615"

\* Mutant: the magnitude is not compared with the bounds of i64.
parse_i64_unbounded(s) ==
    LET signed == Len(s) >= 1 /\ SubSeq(s, 1, 1) \in {"+", "-"}
        negative == signed /\ SubSeq(s, 1, 1) = "-"
        digits == IF signed THEN SubSeq(s, 2, Len(s)) ELSE s
        magnitude == strip_zeros(digits)
    IN  IF Len(digits) = 0 \/ ~all_digits(digits) THEN None
        ELSE Some(IF negative /\ magnitude # "0" THEN "-" \o magnitude ELSE magnitude)

parse_i64(s) ==
    LET signed == Len(s) >= 1 /\ SubSeq(s, 1, 1) \in {"+", "-"}
        negative == signed /\ SubSeq(s, 1, 1) = "-"
        digits == IF signed THEN SubSeq(s, 2, Len(s)) ELSE s
        magnitude == strip_zeros(digits)
    IN  IF Len(digits) = 0 \/ ~all_digits(digits) THEN None
        ELSE IF negative
        THEN IF digits_leq(magnitude, I64_MIN_MAGNITUDE)
             THEN Some(IF magnitude = "0" THEN "0" ELSE "-" \o magnitude)
             ELSE None
        ELSE IF digits_leq(magnitude, I64_MAX) THEN Some(magnitude) ELSE None

parse_usize(s) ==
    LET signed == Len(s) >= 1 /\ SubSeq(s, 1, 1) = "+"
        digits == IF signed THEN SubSeq(s, 2, Len(s)) ELSE s
        magnitude == strip_zeros(digits)
    IN  IF Len(digits) = 0 \/ ~all_digits(digits) THEN None
        ELSE IF digits_leq(magnitude, USIZE_MAX) THEN Some(magnitude) ELSE None

\* tag.try_get_attribute(key): the value of the first attribute named key.
RECURSIVE try_get_attribute(_, _)
try_get_attribute(attrs, key) ==
    IF Len(attrs) = 0 THEN None
    ELSE IF attrs[1][1] = key THEN Some(attrs[1][2])
    ELSE try_get_attribute(SubSeq(attrs, 2, Len(attrs)), key)

(***************************************************************************)
(* The per-element parsers.  Each parser is a loop that reads one relevant *)
(* event per iteration; its local variables are a frame, and the frames of *)
(* the parsers that are running form the call stack.  Handling one event   *)
(* has one of four outcomes: the parser stays in its loop with new locals, *)
(* it calls the parser of a child element, it returns a value, or it       *)
(* returns an error (which every caller passes on with `?`).               *)
(***************************************************************************)
Stay(frame) == [t |-> "stay", frame |-> frame]
Call(frame, callee) == [t |-> "call", frame |-> frame, callee |-> callee]
Ret(value) == [t |-> "ret", value |-> value]
Fail == [t |-> "err"]

\* parse_string(name, attributes, ..)
parse_string(frame, event) ==
    IF event.attrs # <<>> THEN Fail
    ELSE Call(frame, [fn |-> "parse_string", tag |-> event.name, value |-> ""])

\* Mutant: the end of the input inside a string field is passed over.
string_event_past_eof(f, event) ==
    CASE event.kind = "Start" -> Fail
      [] event.kind = "End" -> IF event.name = f.tag THEN Ret(f.value) ELSE Fail
      [] event.kind = "Empty" -> Stay(f)
      [] event.kind = "Text" -> Stay([f EXCEPT !.value = event.text])
      [] event.kind = "Eof" -> Stay(f)

string_event(f, event) ==
    CASE event.kind = "Start" -> Fail
      [] event.kind = "End" -> IF event.name = f.tag THEN Ret(f.value) ELSE Fail
      [] event.kind = "Empty" -> Stay(f)
      [] event.kind = "Text" -> Stay([f EXCEPT !.value = event.text])
      [] event.kind = "Eof" -> Fail

\* parse_namespaces(attributes, ..)
parse_namespaces(frame, event) ==
    IF event.attrs # <<>> THEN Fail
    ELSE Call(frame, [fn |-> "parse_namespaces", tag |-> "namespaces",
                      current_namespace_tag |-> None, namespaces |-> <<>>])

\* Mutant: a </namespace> that closes a namespace without text drops it.
namespaces_event_dropping(f, event) ==
    CASE event.kind = "Start" ->
            IF event.name = "namespace"
            THEN IF f.current_namespace_tag # None THEN Fail
                 ELSE LET key == try_get_attribute(event.attrs, "key")
                          case == try_get_attribute(event.attrs, "case")
                      IN  IF key = None THEN Fail
                          ELSE IF parse_i64(key[1]) = None THEN Fail
                          ELSE IF case = None THEN Fail
                          ELSE Stay([f EXCEPT !.current_namespace_tag =
                                        Some([key |-> parse_i64(key[1])[1],
                                              case |-> case[1]])])
            ELSE Fail
      [] event.kind = "End" ->
            IF event.name = "namespaces" THEN Ret(f.namespaces)
            ELSE IF event.name = "namespace"
            THEN Stay([f EXCEPT !.current_namespace_tag = None])
            ELSE Fail
      [] event.kind = "Empty" -> Stay(f)
      [] event.kind = "Text" ->
            IF f.current_namespace_tag # None
            THEN Stay([f EXCEPT !.namespaces =
                           Append(@, [key |-> f.current_namespace_tag[1].key,
                                      case |-> f.current_namespace_tag[1].case,
                                      name |-> event.text]),
                                !.current_namespace_tag = None])
            ELSE Fail
      [] event.kind = "Eof" -> Fail

namespaces_event(f, event) ==
    CASE event.kind = "Start" ->
            IF event.name = "namespace"
            THEN IF f.current_namespace_tag # None THEN Fail
                 ELSE LET key == try_get_attribute(event.attrs, "key")
                          case == try_get_attribute(event.attrs, "case")
                      IN  IF key = None THEN Fail
                          ELSE IF parse_i64(key[1]) = None THEN Fail
                          ELSE IF case = None THEN Fail
                          ELSE Stay([f EXCEPT !.current_namespace_tag =
                                        Some([key |-> parse_i64(key[1])[1],
                                              case |-> case[1]])])
            ELSE Fail
      [] event.kind = "End" ->
            IF event.name = "namespaces" THEN Ret(f.namespaces)
            ELSE IF event.name = "namespace"
            THEN IF f.current_namespace_tag # None THEN Fail ELSE Stay(f)
            ELSE Fail
      [] event.kind = "Empty" -> Stay(f)
      [] event.kind = "Text" ->
            IF f.current_namespace_tag # None
            THEN Stay([f EXCEPT !.namespaces =
                           Append(@, [key |-> f.current_namespace_tag[1].key,
                                      case |-> f.current_namespace_tag[1].case,
                                      name |-> event.text]),
                                !.current_namespace_tag = None])
            ELSE Fail
      [] event.kind = "Eof" -> Fail

\* parse_siteinfo(attributes, ..)
parse_siteinfo(event) ==
    IF event.attrs # <<>> THEN Fail
    ELSE Call(<<>>, [fn |-> "parse_siteinfo", tag |-> "siteinfo",
                     sitename |-> None, dbname |-> None, base |-> None,
                     generator |-> None, case |-> None, namespaces |-> None])

\* Mutant: a siteinfo without namespaces is returned with an empty list.
siteinfo_event_defaulting(f, event) ==
    CASE event.kind = "Start" ->
            IF event.name \in {"sitename", "dbname", "base", "generator", "case"}
            THEN parse_string(f, event)
            ELSE IF event.name = "namespaces" THEN parse_namespaces(f, event)
            ELSE Fail
      [] event.kind = "End" ->
            IF event.name = "siteinfo"
            THEN IF f.sitename = None THEN Fail
                 ELSE IF f.dbname = None THEN Fail
                 ELSE IF f.base = None THEN Fail
                 ELSE IF f.generator = None THEN Fail
                 ELSE IF f.case = None THEN Fail
                 ELSE Ret([sitename |-> f.sitename[1], dbname |-> f.dbname[1],
                           base |-> f.base[1], generator |-> f.generator[1],
                           case |-> f.case[1],
                           namespaces |-> IF f.namespaces = None THEN <<>>
                                          ELSE f.namespaces[1]])
            ELSE Fail
      [] event.kind = "Empty" -> Stay(f)
      [] event.kind = "Text" -> Stay(f)
      [] event.kind = "Eof" -> Fail

siteinfo_event(f, event) ==
    CASE event.kind = "Start" ->
            IF event.name \in {"sitename", "dbname", "base", "generator", "case"}
            THEN parse_string(f, event)
            ELSE IF event.name = "namespaces" THEN parse_namespaces(f, event)
            ELSE Fail
      [] event.kind = "End" ->
            IF event.name = "siteinfo"
            THEN IF f.sitename = None THEN Fail
                 ELSE IF f.dbname = None THEN Fail
                 ELSE IF f.base = None THEN Fail
                 ELSE IF f.generator = None THEN Fail
                 ELSE IF f.case = None THEN Fail
                 ELSE IF f.namespaces = None THEN Fail
                 ELSE Ret([sitename |-> f.sitename[1], dbname |-> f.dbname[1],
                           base |-> f.base[1], generator |-> f.generator[1],
                           case |-> f.case[1], namespaces |-> f.namespaces[1]])
            ELSE Fail
      [] event.kind = "Empty" -> Stay(f)
      [] event.kind = "Text" -> Stay(f)
      [] event.kind = "Eof" -> Fail

\* The assignment that follows the call of a child parser in parse_siteinfo.
siteinfo_resume(f, tag, value) == Stay([f EXCEPT ![tag] = Some(value)])

\* parse_contributor(attributes, ..)
parse_contributor(frame, event) ==
    IF event.attrs # <<>> THEN Fail
    ELSE Call(frame, [fn |-> "parse_contributor", tag |-> "contributor",
                      username |-> None, id |-> None, ip |-> None])

contributor_event(f, event) ==
    CASE event.kind = "Start" ->
            IF event.name \in {"username", "id", "ip"} THEN parse_string(f, event)
            ELSE Fail
      [] event.kind = "End" ->
            IF event.name = "contributor"
            THEN IF f.username # None /\ f.id # None /\ f.ip = None
                 THEN Ret([variant |-> "User", username |-> f.username[1],
                           id |-> f.id[1], ip |-> ""])
                 ELSE IF f.username = None /\ f.id = None /\ f.ip # None
                 THEN Ret([variant |-> "Anonymous", username |-> "", id |-> "",
                           ip |-> f.ip[1]])
                 ELSE Fail
            ELSE Fail
      [] event.kind = "Empty" -> Stay(f)
      [] event.kind = "Text" -> Stay(f)
      [] event.kind = "Eof" -> Fail

contributor_resume(f, tag, value) ==
    IF tag = "id"
    THEN IF parse_i64(value) = None THEN Fail
         ELSE Stay([f EXCEPT !.id = parse_i64(value)])
    ELSE Stay([f EXCEPT ![tag] = Some(value)])

\* parse_text(attributes, title, ..): the attributes, one after the other.
RECURSIVE text_attributes(_, _)
text_attributes(f, attrs) ==
    IF Len(attrs) = 0 THEN Stay(f)
    ELSE LET key == attrs[1][1]
             value == attrs[1][2]
             rest == SubSeq(attrs, 2, Len(attrs))
         IN  IF key = "bytes"
             THEN IF parse_usize(value) = None THEN Fail
                  ELSE text_attributes([f EXCEPT !.bytes = parse_usize(value)], rest)
             ELSE IF key = "xml:space"
             THEN IF value = "preserve"
                  THEN text_attributes([f EXCEPT !.xml_space = Some("Preserve")], rest)
                  ELSE Fail
             ELSE Fail

parse_text(frame, event) ==
    LET f == text_attributes([fn |-> "parse_text", tag |-> "text",
                              title |-> frame.title, bytes |-> None,
                              xml_space |-> None, text |-> None], event.attrs)
    IN  IF f.t = "err" THEN Fail ELSE Call(frame, f.frame)

\* Mutant: a <text> without a body is returned as a text without sections.
text_event_empty_body(f, event) ==
    CASE event.kind = "Start" -> Fail
      [] event.kind = "End" ->
            IF event.name = "text"
            THEN IF f.xml_space = None THEN Fail
                 ELSE IF f.text = None
                 THEN Ret([xml_space |-> f.xml_space[1],
                           text |-> [root_section |-> Section(1, "", <<>>),
                                     serialized_len |-> 0]])
                 ELSE Ret([xml_space |-> f.xml_space[1], text |-> f.text[1]])
            ELSE Fail
      [] event.kind = "Empty" -> Stay(f)
      [] event.kind = "Eof" -> Fail

\* The events of parse_text other than Text.
text_event(f, event) ==
    CASE event.kind = "Start" -> Fail
      [] event.kind = "End" ->
            IF event.name = "text"
            THEN IF f.xml_space = None THEN Fail
                 ELSE IF f.text = None THEN Fail
                 ELSE Ret([xml_space |-> f.xml_space[1], text |-> f.text[1]])
            ELSE Fail
      [] event.kind = "Empty" -> Stay(f)
      [] event.kind = "Eof" -> Fail

\* parse_revision(attributes, title, ..)
parse_revision(frame, event) ==
    IF event.attrs # <<>> THEN Fail
    ELSE Call(frame, [fn |-> "parse_revision", tag |-> "revision",
                      title |-> frame.title, id |-> None, parentid |-> None,
                      timestamp |-> None, contributor |-> None, comment |-> None,
                      model |-> None, format |-> None, text |-> None,
                      sha1 |-> None, minor |-> FALSE])

revision_event(f, event) ==
    CASE event.kind = "Start" ->
            IF event.name \in {"id", "parentid", "timestamp", "comment", "model",
                               "format", "sha1"}
            THEN parse_string(f, event)
            ELSE IF event.name = "contributor" THEN parse_contributor(f, event)
            ELSE IF event.name = "text" THEN parse_text(f, event)
            ELSE Fail
      [] event.kind = "End" ->
            IF event.name = "revision"
            THEN IF f.id = None THEN Fail
                 ELSE IF f.timestamp = None THEN Fail
                 ELSE IF f.model = None THEN Fail
                 ELSE IF f.format = None THEN Fail
                 ELSE IF f.sha1 = None THEN Fail
                 ELSE Ret([id |-> f.id[1], parentid |-> f.parentid,
                           timestamp |-> f.timestamp[1],
                           contributor |-> f.contributor, comment |-> f.comment,
                           model |-> f.model[1], format |-> f.format[1],
                           text |-> f.text, sha1 |-> f.sha1[1], minor |-> f.minor])
            ELSE Fail
      [] event.kind = "Empty" ->
            IF event.name = "minor" THEN Stay([f EXCEPT !.minor = TRUE]) ELSE Stay(f)
      [] event.kind = "Text" -> Stay(f)
      [] event.kind = "Eof" -> Fail

revision_resume(f, tag, value) ==
    IF tag \in {"id", "parentid"}
    THEN IF parse_i64(value) = None THEN Fail
         ELSE Stay([f EXCEPT ![tag] = parse_i64(value)])
    ELSE Stay([f EXCEPT ![tag] = Some(value)])

\* parse_page(attributes, ..)
parse_page(event) ==
    IF event.attrs # <<>> THEN Fail
    ELSE Call(<<>>, [fn |-> "parse_page", tag |-> "page", title |-> None,
                     namespace |-> None, id |-> None, revision |-> None,
                     redirect |-> None])

\* The attributes of <redirect/>: the last one named title is kept.
RECURSIVE redirect_attributes(_, _)
redirect_attributes(redirect, attrs) ==
    IF Len(attrs) = 0 THEN redirect
    ELSE redirect_attributes(
             IF attrs[1][1] = "title" THEN Some(attrs[1][2]) ELSE redirect,
             SubSeq(attrs, 2, Len(attrs)))

page_event(f, event) ==
    CASE event.kind = "Start" ->
            IF event.name \in {"title", "ns", "id"} THEN parse_string(f, event)
            ELSE IF event.name = "revision" THEN parse_revision(f, event)
            ELSE Fail
      [] event.kind = "End" ->
            IF event.name = "page"
            THEN IF f.title = None THEN Fail
                 ELSE IF f.namespace = None THEN Fail
                 ELSE IF f.id = None THEN Fail
                 ELSE IF f.revision = None THEN Fail
                 ELSE Ret([title |-> f.title[1], namespace |-> f.namespace[1],
                           id |-> f.id[1], revision |-> f.revision[1],
                           redirect |-> f.redirect])
            ELSE Fail
      [] event.kind = "Empty" ->
            IF event.name = "redirect"
            THEN Stay([f EXCEPT !.redirect = redirect_attributes(@, event.attrs)])
            ELSE Stay(f)
      [] event.kind = "Text" -> Stay(f)
      [] event.kind = "Eof" -> Fail

page_resume(f, tag, value) ==
    IF tag = "ns"
    THEN IF parse_i64(value) = None THEN Fail
         ELSE Stay([f EXCEPT !.namespace = parse_i64(value)])
    ELSE IF tag = "id"
    THEN IF parse_i64(value) = None THEN Fail
         ELSE Stay([f EXCEPT !.id = parse_i64(value)])
    ELSE Stay([f EXCEPT ![tag] = Some(value)])

\* The caller continues after the parser of its child element `tag` returned.
resume(caller, tag, value) ==
    CASE caller.fn = "parse_siteinfo" -> siteinfo_resume(caller, tag, value)
      [] caller.fn = "parse_page" -> page_resume(caller, tag, value)
      [] caller.fn = "parse_revision" -> revision_resume(caller, tag, value)
      [] caller.fn = "parse_contributor" -> contributor_resume(caller, tag, value)

(***************************************************************************)
(* The JSON sink: tokio's BufWriter::with_capacity(1024 * 1024, file).     *)
(* The sink holds the documents that reached the file and the documents    *)
(* that are in the write buffer.  A document is written in one piece.      *)
(***************************************************************************)
BufCapacity == 1048576

NoSink == [some |-> FALSE, buffer |-> <<>>, file |-> <<>>]
NewSink == [some |-> TRUE, buffer |-> <<>>, file |-> <<>>]

\* The length of the compact JSON text of a document.  The text of a page
\* grows with its wikitext; everything else in a document is short.
json_len(doc) ==
    IF "revision" \in DOMAIN doc
    THEN IF doc.revision.text = None THEN 256
         ELSE 256 + doc.revision.text[1].text.serialized_len
    ELSE 256

RECURSIVE buffered_len(_)
buffered_len(buffer) ==
    IF Len(buffer) = 0 THEN 0
    ELSE json_len(buffer[1]) + buffered_len(SubSeq(buffer, 2, Len(buffer)))

\* BufWriter::write_all: the buffer is flushed when the new bytes do not fit
\* behind the buffered ones; bytes that fill the capacity go to the file
\* directly, shorter ones are only buffered.
\* Mutant: bytes that fill the capacity overtake the buffered ones.
write_all_overtaking(sink, doc) ==
    IF json_len(doc) >= BufCapacity
    THEN [sink EXCEPT !.file = Append(@, doc)]
    ELSE [sink EXCEPT !.buffer = Append(@, doc)]

write_all(sink, doc) ==
    LET flushed == IF buffered_len(sink.buffer) + json_len(doc) > BufCapacity
                   THEN [sink EXCEPT !.file = @ \o sink.buffer, !.buffer = <<>>]
                   ELSE sink
    IN  IF json_len(doc) >= BufCapacity
        THEN [flushed EXCEPT !.file = Append(@, doc)]
        ELSE [flushed EXCEPT !.buffer = Append(@, doc)]

\* The BufWriter goes out of scope when parse_dump_file returns: it is never
\* flushed or shut down, and dropping it discards the buffered bytes.
drop(sink) == [sink EXCEPT !.buffer = <<>>]

(***************************************************************************)
(* The wikitext parser is a library: parse_wikitext is given by its result *)
(* on the texts the dumps below contain, a tree under a root section that  *)
(* carries the headline it was called with, and the errors it reported.    *)
(***************************************************************************)
TopLevelText == "==English==\n===Noun===\n===Verb==="
MixedText == "==English==\n===Noun===\n===Foo==="
BrokenText == "==English==\n{{unclosed"
BrokenMixedText == "==English==\n===Noun===\n===Foo===\n{{unclosed"
\* Stands for a text whose serialisation fills the write buffer.
HugeText == "==English==\n===Noun===\n(1 MiB of text)"

parse_wikitext(raw_text, headline) ==
    LET Parsed(subsections, len, errors) ==
            [wikitext |-> [root_section |-> Section(1, headline,
                               <<Section(2, "English", subsections)>>),
                           serialized_len |-> len],
             errors |-> errors]
    IN  CASE raw_text = TopLevelText ->
                Parsed(<<Section(3, "Noun", <<>>), Section(3, "Verb", <<>>)>>,
                       Len(raw_text), <<>>)
          [] raw_text = MixedText ->
                Parsed(<<Section(3, "Noun", <<>>), Section(3, "Foo", <<>>)>>,
                       Len(raw_text), <<>>)
          [] raw_text = BrokenText ->
                Parsed(<<>>, Len(raw_text), <<"UnmatchedDoubleOpenBrace">>)
          [] raw_text = BrokenMixedText ->
                Parsed(<<Section(3, "Noun", <<>>), Section(3, "Foo", <<>>)>>,
                       Len(raw_text), <<"UnmatchedDoubleOpenBrace">>)
          [] raw_text = HugeText ->
                Parsed(<<Section(3, "Noun", <<>>)>>, BufCapacity, <<>>)

(***************************************************************************)
(* The dumps: <mediawiki>, one <siteinfo>, then up to MaxPages pages, each *)
(* of one of the kinds below, with the declaration, comments and the white *)
(* space between the elements that a dump file has.                        *)
(***************************************************************************)
MaxPages == 2

Element(name, text) == <<Start(name), Text(text), End(name)>>
Whitespace == <<Text("\n  ")>>

\* A child element of a variant of its parent: left out of the variant
\* "no_<name>", given twice (the second time with another text) in the
\* variant "dup_<name>", and without a text in the variant "empty_<name>".
Child(variant, name, text, other) ==
    CASE variant = "no_" \o name -> <<>>
      [] variant = "dup_" \o name -> Element(name, text) \o Element(name, other)
      [] variant = "empty_" \o name -> <<Start(name), End(name)>>
      [] OTHER -> Element(name, text)

\* An element no schema lists, as an empty tag or as a start tag.
Stray(variant) ==
    CASE variant = "stray_empty" -> <<Empty("foo")>>
      [] variant = "stray_start" -> <<Start("foo"), End("foo")>>
      [] OTHER -> <<>>

NamespacesEvents(variant) ==
    CASE variant = "no_namespaces" -> <<>>
      [] variant = "empty_namespaces" ->
            <<Start("namespaces"),
              EmptyWith("namespace", <<<<"key", "0">>, <<"case", "case-sensitive">>>>),
              End("namespaces")>>
      [] OTHER ->
            <<Start("namespaces"),
              StartWith("namespace", <<<<"key", "-2">>, <<"case", "case-sensitive">>>>),
              Text("Media"), End("namespace"),
              EmptyWith("namespace", <<<<"key", "0">>, <<"case", "case-sensitive">>>>),
              End("namespaces")>>

SiteinfoVariants ==
    {"full", "no_sitename", "no_dbname", "no_base", "no_generator", "no_case",
     "no_namespaces", "dup_sitename", "empty_sitename", "empty_namespaces",
     "stray_empty", "stray_start"}

Siteinfo(variant) ==
    <<Start("siteinfo")>> \o Whitespace
        \o Child(variant, "sitename", "Wiktionary", "Wikipedia")
        \o Child(variant, "dbname", "enwiktionary", "")
        \o Stray(variant)
        \o Child(variant, "base", "https://en.wiktionary.org/wiki/Wiktionary:Main_Page", "")
        \o Child(variant, "generator", "MediaWiki 1.39", "")
        \o Child(variant, "case", "case-sensitive", "")
        \o NamespacesEvents(variant)
        \o Whitespace \o <<End("siteinfo")>>

SiteinfoEvents == Siteinfo("full")

\* The kinds of page that fill the dumps of several pages.
PageKinds ==
    {"word", "mixed", "broken", "template", "template_broken", "late_title",
     "huge", "no_sha1", "empty_text", "split_text"}

\* The kinds of page that are parsed as the only page of a dump: a page
\* without one of its children, with one of them twice, with a child that no
\* schema lists, with nothing but the required children, with a text without
\* xml:space or without a body, with its title after a revision that has
\* an unknown subsection, with a text that has an unclosed brace and an
\* unknown subsection, with two revisions whose texts have an unclosed brace,
\* with a text whose body is white space.
SchemaPageKinds ==
    {"no_title", "no_ns", "no_id", "no_revision", "no_rev_id", "no_timestamp",
     "no_model", "no_format", "no_xml_space", "bare", "empty_body",
     "dup_title", "dup_rev_id", "dup_username", "dup_revision",
     "stray_empty", "stray_start", "late_mixed", "broken_mixed", "dup_broken",
     "blank_body"}

TitleOf(kind) ==
    CASE kind \in {"template", "template_broken", "late_title"} -> "Template:foo"
      [] kind \in {"mixed", "late_mixed"} -> "dog"
      [] OTHER -> "cat"

RawTextOf(kind) ==
    CASE kind \in {"mixed", "late_mixed"} -> MixedText
      [] kind \in {"broken", "template_broken", "dup_broken"} -> BrokenText
      [] kind = "broken_mixed" -> BrokenMixedText
      [] kind = "huge" -> HugeText
      [] OTHER -> TopLevelText

TextEvents(kind) ==
    LET attributes == <<<<"bytes", "34">>, <<"xml:space", "preserve">>>> IN
    CASE kind = "empty_text" -> <<EmptyWith("text", attributes)>>
      [] kind = "bare" -> <<>>
      [] kind = "split_text" ->
            <<StartWith("text", attributes), Text(RawTextOf(kind)),
              Event("Comment", "", <<>>, "note"), Text(RawTextOf(kind)), End("text")>>
      [] kind = "no_xml_space" ->
            <<StartWith("text", <<<<"bytes", "34">>>>), Text(RawTextOf(kind)), End("text")>>
      [] kind = "empty_body" -> <<StartWith("text", attributes), End("text")>>
      [] kind = "blank_body" ->
            <<StartWith("text", attributes), Text(" \t\r\n"), End("text")>>
      [] OTHER ->
            <<StartWith("text", attributes), Text(RawTextOf(kind))>> \o Stray(kind)
                \o <<End("text")>>

ContributorEvents(kind) ==
    CASE kind = "bare" -> <<>>
      [] kind \in {"word", "dup_username"} ->
            <<Start("contributor")>> \o Child(kind, "username", "Alice", "Bob")
                \o Element("id", "42") \o <<End("contributor")>>
      [] OTHER ->
            <<Start("contributor")>> \o Element("ip", "127.0.0.1") \o Stray(kind)
                \o <<End("contributor")>>

RevisionEvents(kind, ordinal) ==
    <<Start("revision")>> \o Whitespace
        \o (CASE kind = "no_rev_id" -> <<>>
              [] kind = "dup_rev_id" ->
                    Element("id", ToString(100 + ordinal)) \o Element("id", "999")
              [] OTHER -> Element("id", ToString(100 + ordinal)))
        \o (IF kind = "word" THEN Element("parentid", "7") \o <<Empty("minor")>> ELSE <<>>)
        \o Child(kind, "timestamp", "2023-01-01T00:00:00Z", "")
        \o ContributorEvents(kind)
        \o (CASE kind = "word" ->
                    <<Start("comment"), Event("CData", "", <<>>, "raw"), Text("typo"),
                      Text(" \t\r\n"), End("comment")>>
              [] kind = "bare" -> <<>>
              [] OTHER -> <<Empty("comment")>>)
        \o Stray(kind)
        \o Child(kind, "model", "wikitext", "") \o Child(kind, "format", "text/x-wiki", "")
        \o TextEvents(kind)
        \o Child(kind, "sha1", "abc", "")
        \o <<End("revision")>>

PageEvents(kind, ordinal) ==
    <<Start("page")>> \o Whitespace
        \o (CASE kind \in {"late_title", "late_mixed"} -> <<>>
              [] kind = "stray_empty" -> <<Start("title"), Text("cat"), Empty("foo"), End("title")>>
              [] OTHER -> Child(kind, "title", TitleOf(kind), "Template:foo"))
        \o Child(kind, "ns", "0", "") \o Stray(kind)
        \o (IF kind = "no_id" THEN <<>> ELSE Element("id", ToString(ordinal)))
        \o (IF kind = "word"
            THEN <<EmptyWith("redirect", <<<<"title", "feline">>>>)>> ELSE <<>>)
        \o (CASE kind = "no_revision" -> <<>>
              [] kind = "dup_revision" ->
                    RevisionEvents(kind, ordinal) \o RevisionEvents("mixed", ordinal)
              [] kind = "dup_broken" ->
                    RevisionEvents(kind, ordinal) \o RevisionEvents(kind, ordinal)
              [] OTHER -> RevisionEvents(kind, ordinal))
        \o (IF kind \in {"late_title", "late_mixed"}
            THEN Element("title", TitleOf(kind)) ELSE <<>>)
        \o Whitespace \o <<End("page")>>

RECURSIVE PagesEvents(_, _)
PagesEvents(kinds, ordinal) ==
    IF ordinal > Len(kinds) THEN <<>>
    ELSE PageEvents(kinds[ordinal], ordinal) \o PagesEvents(kinds, ordinal + 1)

Dump(kinds) ==
    <<Event("Decl", "", <<>>, "xml version 1.0"), Event("DocType", "", <<>>, "mediawiki"),
      Event("PI", "", <<>>, "xml-stylesheet"), Start("mediawiki")>> \o Whitespace
        \o SiteinfoEvents \o PagesEvents(kinds, 1)
        \o <<Event("Comment", "", <<>>, "end"), End("mediawiki")>> \o Whitespace \o <<Eof>>

\* Documents of other shapes: a root element around anything, and what a
\* file can hold outside of a root element.
Mediawiki(content) == <<Start("mediawiki")>> \o content \o <<End("mediawiki")>>

OtherDumps ==
    { <<Eof>>,
      Mediawiki(<<>>) \o <<Eof>>,
      Mediawiki(PageEvents("word", 1)) \o <<Eof>>,
      Mediawiki(SiteinfoEvents \o SiteinfoEvents) \o <<Eof>>,
      Mediawiki(PageEvents("word", 1) \o SiteinfoEvents) \o <<Eof>>,
      Mediawiki(SiteinfoEvents) \o Mediawiki(<<>>) \o <<Eof>>,
      Mediawiki(SiteinfoEvents) \o <<Start("page"), End("page"), Eof>>,
      Mediawiki(SiteinfoEvents) \o <<End("mediawiki"), Eof>>,
      SiteinfoEvents \o <<Eof>>,
      Mediawiki(SiteinfoEvents \o <<Start("logitem"), End("logitem")>>) \o <<Eof>>,
      Mediawiki(SiteinfoEvents \o <<Text("junk")>>) \o <<Eof>>,
      Mediawiki(SiteinfoEvents \o <<Empty("page")>>) \o <<Eof>>,
      <<Start("mediawiki")>> \o SiteinfoEvents \o <<End("wiki"), Eof>>,
      <<Start("mediawiki")>> \o SiteinfoEvents \o <<Eof>> }

\* A dump with one page, in which the integer of one place is written as
\* `text`: the key of a namespace, the ns and the id of the page, the id and
\* the parentid of the revision, the id of the contributor.  With the place
\* "bytes" the text of the page has a body and `text` as its bytes attribute,
\* with "no_bytes" it has no such attribute.
IntegerFields == {"key", "ns", "page_id", "revision_id", "parentid", "contributor_id"}

IntegerTexts ==
    {"0", "-1", "+7", "007", "-0", "9223372036854775807", "9223372036854775808",
     "-9223372036854775808", "-9223372036854775809", "18446744073709551616",
     "", "abc", "12a", " 5", "-", "+", "1.0", "0x10", "1e3", "--1"}

IntegerDump(field, text) ==
    LET at(place, usual) == IF field = place THEN text ELSE usual
        siteinfo ==
            <<Start("siteinfo")>>
                \o Element("sitename", "Wiktionary") \o Element("dbname", "enwiktionary")
                \o Element("base", "https://en.wiktionary.org/wiki/Wiktionary:Main_Page")
                \o Element("generator", "MediaWiki 1.39") \o Element("case", "case-sensitive")
                \o <<Start("namespaces"),
                      StartWith("namespace",
                          <<<<"key", at("key", "0")>>, <<"case", "case-sensitive">>>>),
                      Text("Media"), End("namespace"), End("namespaces"), End("siteinfo")>>
        page ==
            <<Start("page")>> \o Element("title", "cat")
                \o Element("ns", at("ns", "0")) \o Element("id", at("page_id", "1"))
                \o <<Start("revision")>> \o Element("id", at("revision_id", "101"))
                \o Element("parentid", at("parentid", "7"))
                \o Element("timestamp", "2023-01-01T00:00:00Z")
                \o <<Start("contributor")>> \o Element("username", "Alice")
                \o Element("id", at("contributor_id", "42")) \o <<End("contributor")>>
                \o Element("model", "wikitext") \o Element("format", "text/x-wiki")
                \o (CASE field = "bytes" ->
                            <<StartWith("text", <<<<"bytes", text>>,
                                                  <<"xml:space", "preserve">>>>),
                              Text(TopLevelText), End("text")>>
                      [] field = "no_bytes" ->
                            <<StartWith("text", <<<<"xml:space", "preserve">>>>),
                              Text(TopLevelText), End("text")>>
                      [] OTHER -> TextEvents("empty_text"))
                \o Element("sha1", "abc")
                \o <<End("revision"), End("page")>>
    IN  Mediawiki(siteinfo \o (IF field = "key" THEN <<>> ELSE page)) \o <<Eof>>

(***************************************************************************)
(* The byte source: parse_dump_file chooses the decoder from the name of   *)
(* the input file.  A path is a string with "/" as its separator.          *)
(***************************************************************************)
ends_with(s, suffix) ==
    Len(s) >= Len(suffix) /\ SubSeq(s, Len(s) - Len(suffix) + 1, Len(s)) = suffix

\* The index of the last c in s, 0 when there is none.
rfind(s, c) ==
    LET found == { i \in 1..Len(s) : SubSeq(s, i, i) = c }
    IN  IF found = {} THEN 0 ELSE CHOOSE i \in found : \A j \in found : j <= i

\* Path::file_name: the last component, trailing separators left aside, when
\* it is a normal one.
RECURSIVE trim_separators(_)
trim_separators(path) ==
    IF Len(path) > 1 /\ ends_with(path, "/")
    THEN trim_separators(SubSeq(path, 1, Len(path) - 1))
    ELSE path

file_name(path) ==
    LET trimmed == trim_separators(path)
        name == SubSeq(trimmed, rfind(trimmed, "/") + 1, Len(trimmed))
    IN  IF name \in {"", ".", ".."} THEN None ELSE Some(name)

\* Path::extension: what follows the last dot of the file name, when there is
\* a dot and it is not the first character.
extension(path) ==
    IF file_name(path) = None THEN None
    ELSE LET name == file_name(path)[1]
             dot == rfind(name, ".")
         IN  IF dot <= 1 THEN None ELSE Some(SubSeq(name, dot + 1, Len(name)))

\* Path::file_stem: what precedes that dot, else the whole file name.
file_stem(path) ==
    IF file_name(path) = None THEN None
    ELSE LET name == file_name(path)[1]
             dot == rfind(name, ".")
         IN  IF dot <= 1 THEN Some(name) ELSE Some(SubSeq(name, 1, dot - 1))

\* The branch parse_dump_file takes.  In the ".bz2" branch the stem is mapped
\* to whether it ends with "xml", and the file is refused when the result of
\* the map is None.
decoder_of(input_file) ==
    IF extension(input_file) = Some("bz2")
    THEN LET stem == file_stem(input_file)
             checked == IF stem = None THEN None ELSE Some(ends_with(stem[1], "xml"))
         IN  IF checked = None THEN "rejected" ELSE "bzip2"
    ELSE IF extension(input_file) = Some("xml") THEN "plain" ELSE "rejected"

\* What the reader is given of a file made of these members.  A plain file
\* is one member, read to its end.  BzDecoder::new decodes one member: its
\* multiple_members option is off unless it is set, and then the end of the
\* first member is the end of the stream.
byte_source(decoder, members) ==
    IF members = <<>> THEN <<>> ELSE members[1]

(***************************************************************************)
(* State.  input, pos: the events of the dump and the position of the next *)
(* event to read.  tag_stack, output_stream, error_log: the locals and     *)
(* streams of parse_dump_file_with_streams.  stack: the frames of the      *)
(* element parsers that are running, outermost first.  result: "running"   *)
(* until parse_dump_file returns "Ok" or "Err" or panics.  call: the last  *)
(* call of the classifier.  History: json_written, the documents handed to *)
(* write_all; trace, the consumer invocations, error-log sections and      *)
(* write_all calls in the order they happened; pages_started and           *)
(* page_titles, the number of <page> elements begun and the title of each. *)
(* input_file, output_file: the arguments of parse_dump_file; file: the    *)
(* members of the input file, None when it cannot be opened; decoder: the  *)
(* branch taken, "none" before; created: the files created or truncated.   *)
(* now: the clock, which every step advances by tick seconds;              *)
(* last_progress_log: the local of that name; reports: the progress        *)
(* reports logged so far.                                                  *)
(***************************************************************************)
VARIABLES input, pos, tag_stack, stack, output_stream, error_log, result, call,
          json_written, trace, pages_started, page_titles,
          input_file, output_file, file, decoder, created,
          now, tick, last_progress_log, reports,
          progress_delay, retained_content_length_amount, last_content_lengths,
          last_progress_output, current_content_length, eta

source_vars == <<input_file, output_file, file, decoder, created>>

clock_vars == <<now, tick, last_progress_log, reports>>

download_vars == <<progress_delay, retained_content_length_amount, last_content_lengths,
                   last_progress_output, current_content_length, eta>>

vars == <<input, pos, tag_stack, stack, output_stream, error_log, result, call,
          json_written, trace, pages_started, page_titles, source_vars, clock_vars,
          download_vars>>

pipeline_vars == <<input, pos, tag_stack, stack, output_stream, error_log, result,
                   json_written, trace, pages_started, page_titles,
                   source_vars, clock_vars, download_vars>>

\* No download is under way.
NoDownload ==
    /\ progress_delay = 1
    /\ retained_content_length_amount = 60
    /\ last_content_lengths = <<>>
    /\ last_progress_output = 0
    /\ current_content_length = 0
    /\ eta = <<>>

\* The bytes of a document: its events without the end of input.
Bytes(events) == SubSeq(events, 1, Len(events) - 1)

\* Time passes while a step is taken.
Elapse == now' = now + tick /\ UNCHANGED tick

\* The arguments of one call of the classifier, and what it did.
NewCall(title, wikitext, failing) ==
    [title |-> title, wikitext |-> wikitext, failing |-> failing,
     returned |-> FALSE, out |-> NoOutput]

Returned(title, wikitext, failing) ==
    [NewCall(title, wikitext, failing) EXCEPT !.returned = TRUE,
        !.out = wikitext_to_words(title, wikitext, failing)]

\* A file that ends early: the events of a dump of one page up to any of
\* them, and the end of the input.
TruncatedDumps ==
    { SubSeq(Dump(<<"word">>), 1, n) \o <<Eof>> : n \in 0..(Len(Dump(<<"word">>)) - 1) }

(***************************************************************************)
(* The pipeline: parse_dump_file on a dump, with or without an output      *)
(* file.                                                                   *)
(***************************************************************************)
Init ==
    /\ \/ \E n \in 0..MaxPages : \E kinds \in SeqOfLen(PageKinds, n) : input = Dump(kinds)
       \/ \E kind \in SchemaPageKinds : input = Dump(<<kind>>)
       \/ \E variant \in SiteinfoVariants :
             input = Mediawiki(Siteinfo(variant)) \o <<Eof>>
       \/ input \in OtherDumps
       \/ \E field \in IntegerFields, text \in IntegerTexts :
             input = IntegerDump(field, text)
       \/ \E text \in IntegerTexts : input = IntegerDump("bytes", text)
       \/ input = IntegerDump("no_bytes", "")
       \/ input \in TruncatedDumps
    /\ pos = 1
    /\ tag_stack = <<>>
    /\ stack = <<>>
    /\ output_stream \in {NoSink, NewSink}
    /\ error_log = <<>>
    /\ result = "running"
    /\ call = NewCall("", parse_wikitext(TopLevelText, "").wikitext, {})
    /\ json_written = <<>>
    /\ trace = <<>>
    /\ pages_started = 0
    /\ page_titles = <<>>
    /\ input_file = "dump.xml"
    /\ output_file = IF output_stream.some THEN Some("words.json") ELSE None
    /\ file = Some(<<Bytes(input)>>)
    /\ decoder = "plain"
    /\ created = IF output_stream.some THEN {"output_file", "error_log"} ELSE {"error_log"}
    /\ now = 0
    /\ tick = 3
    /\ last_progress_log = 0
    /\ reports = <<>>
    /\ NoDownload

\* One entry of the trace: the number of pages begun when it happened, the
\* Word and whether the consumer accepted it, and the number of events read.
\* A write_all call is of kind "json" for a page and "siteinfo" for a
\* siteinfo.
WordEvent(word, ok, reads) ==
    [kind |-> "word", page |-> pages_started, word |-> word, ok |-> ok, reads |-> reads]
LogEvent(reads) ==
    [kind |-> "log", page |-> pages_started, word |-> Word("", "", ""), ok |-> TRUE,
     reads |-> reads]
JsonEvent(reads) ==
    [kind |-> IF stack[1].fn = "parse_page" THEN "json" ELSE "siteinfo",
     page |-> pages_started, word |-> Word("", "", ""), ok |-> TRUE, reads |-> reads]

Top == stack[Len(stack)]

\* The title of the current page, once its <title> has been parsed.
titles_after(new_stack) ==
    IF Len(new_stack) > 0 /\ new_stack[1].fn = "parse_page" /\ new_stack[1].title # None
    THEN [page_titles EXCEPT ![pages_started] = new_stack[1].title]
    ELSE page_titles

Update(new_stack, new_result, new_output_stream, new_json_written, new_trace) ==
    /\ stack' = new_stack
    /\ result' = new_result
    /\ output_stream' = new_output_stream
    /\ json_written' = new_json_written
    /\ trace' = new_trace
    /\ page_titles' = titles_after(new_stack)

\* parse_dump_file returns (an Err through every `?` on the way up) or
\* panics: the streams are dropped.
Terminate(new_result, new_trace) ==
    Update(<<>>, new_result, drop(output_stream), json_written, new_trace)

Continue(new_stack, new_trace) ==
    Update(new_stack, "running", output_stream, json_written, new_trace)

\* parse_siteinfo or parse_page returned to parse_dump_file_with_streams:
\* with an output stream, the value is serialised and handed to write_all.
Emit(doc, new_trace, reads) ==
    IF output_stream.some
    THEN Update(<<>>, "running", write_all(output_stream, doc),
                Append(json_written, doc), Append(new_trace, JsonEvent(reads)))
    ELSE Continue(<<>>, new_trace)

\* What follows the handling of one event by the parser on top of the stack.
Settle(outcome, new_trace, reads) ==
    CASE outcome.t = "stay" ->
            Continue([stack EXCEPT ![Len(stack)] = outcome.frame], new_trace)
      [] outcome.t = "call" ->
            Continue(Append([stack EXCEPT ![Len(stack)] = outcome.frame],
                            outcome.callee), new_trace)
      [] outcome.t = "err" -> Terminate("Err", new_trace)
      [] outcome.t = "ret" ->
            IF Len(stack) = 1 THEN Emit(outcome.value, new_trace, reads)
            ELSE LET resumed == resume(stack[Len(stack) - 1], Top.tag, outcome.value)
                 IN  IF resumed.t = "err" THEN Terminate("Err", new_trace)
                     ELSE Continue(Append(SubSeq(stack, 1, Len(stack) - 2),
                                          resumed.frame), new_trace)

\* The parser fn is on top of the stack.
Running(fn) == result = "running" /\ Len(stack) > 0 /\ Top.fn = fn

\* read_relevant_event: the next relevant event.
NextEvent == input[next_relevant(input, pos)]

\* One iteration of the loop of an element parser other than parse_text:
\* the next relevant event is read, and handled with this outcome.
\* Mutant: the tag of a child element that a parser enters is pushed on the
\* tag stack of the document.
ParserStep_pushing(outcome) ==
    /\ pos' = next_relevant(input, pos) + 1
    /\ Settle(outcome, trace, next_relevant(input, pos))
    /\ Elapse
    /\ tag_stack' = IF outcome.t = "call" THEN Append(tag_stack, outcome.callee.tag)
                    ELSE tag_stack
    /\ UNCHANGED <<input, error_log, call, pages_started, source_vars, download_vars,
                   last_progress_log, reports>>

ParserStep(outcome) ==
    /\ pos' = next_relevant(input, pos) + 1
    /\ Settle(outcome, trace, next_relevant(input, pos))
    /\ Elapse
    /\ UNCHANGED <<input, tag_stack, error_log, call, pages_started, source_vars, download_vars,
                   last_progress_log, reports>>

SiteinfoStep ==
    /\ Running("parse_siteinfo")
    /\ ParserStep(siteinfo_event(Top, NextEvent))

NamespacesStep ==
    /\ Running("parse_namespaces")
    /\ ParserStep(namespaces_event(Top, NextEvent))

PageStep ==
    /\ Running("parse_page")
    /\ ParserStep(page_event(Top, NextEvent))

RevisionStep ==
    /\ Running("parse_revision")
    /\ ParserStep(revision_event(Top, NextEvent))

ContributorStep ==
    /\ Running("parse_contributor")
    /\ ParserStep(contributor_event(Top, NextEvent))

StringStep ==
    /\ Running("parse_string")
    /\ ParserStep(string_event(Top, NextEvent))

\* The lines parse_text writes to the error log for one page.
\* {error:#?} of Error::Other(message), for a message without a character
\* that Debug escapes.
pretty_debug(error) == "Other(\n    \"" \o error \o "\",\n)"

\* Mutant: the classifier errors are written before the parser errors.
log_lines_words_first(page_name, parser_errors, word_errors, raw_text) ==
    IF Len(parser_errors) > 0 \/ Len(word_errors) > 0
    THEN <<"Page: " \o page_name>>
             \o [i \in 1..Len(word_errors) |-> pretty_debug(word_errors[i])]
             \o parser_errors
             \o <<"\nContent: " \o raw_text \o "\n">>
    ELSE <<>>

\* The lines written by the four writeln! of parse_text; the parser errors
\* stand for their own {error:#?} rendering.
log_lines(page_name, parser_errors, word_errors, raw_text) ==
    IF Len(parser_errors) > 0 \/ Len(word_errors) > 0
    THEN <<"Page: " \o page_name>> \o parser_errors
             \o [i \in 1..Len(word_errors) |-> pretty_debug(word_errors[i])]
             \o <<"\nContent: " \o raw_text \o "\n">>
    ELSE <<>>

\* One iteration of the loop of parse_text.  On a Text event the text is
\* parsed, its words are classified and handed to the consumer, which fails
\* at the invocations in `failing`, and the errors are logged.
TextStep ==
    /\ Running("parse_text")
    /\ LET p == next_relevant(input, pos)
           event == input[p]
       IN
         /\ pos' = p + 1
         /\ IF event.kind # "Text"
            THEN /\ Settle(text_event(Top, event), trace, p)
                 /\ UNCHANGED <<error_log, call>>
            ELSE IF Top.text # None
            THEN /\ Terminate("Panic", trace)
                 /\ UNCHANGED <<error_log, call>>
            ELSE \E failing \in Failings :
                   LET page_name == IF Top.title = None THEN "" ELSE Top.title[1]
                       parsed_text == parse_wikitext(event.text, page_name)
                       returned == Returned(page_name, parsed_text.wikitext, failing)
                       out == returned.out
                       words == [i \in 1..Len(out.delivered) |->
                                    WordEvent(out.delivered[i], i \notin failing, p)]
                       lines == log_lines(page_name, parsed_text.errors, out.errors,
                                          event.text)
                   IN  /\ call' = returned
                       /\ IF out.failed
                          THEN /\ Terminate("Err", trace \o words)
                               /\ UNCHANGED error_log
                          ELSE /\ Continue([stack EXCEPT ![Len(stack)] =
                                               [Top EXCEPT !.text = Some(parsed_text.wikitext)]],
                                           trace \o words
                                             \o (IF Len(lines) > 0 THEN <<LogEvent(p)>>
                                                 ELSE <<>>))
                               /\ error_log' = error_log \o lines
    /\ Elapse
    /\ UNCHANGED <<input, tag_stack, pages_started, source_vars, download_vars, last_progress_log, reports>>

\* The bytes of the file that one event stands for, in a plain file and in
\* a compressed one.
EventBytes == 393216
CompressedEventBytes == 98304
MiB == 1048576

bytes_per_event(d) == IF d = "bzip2" THEN CompressedEventBytes ELSE EventBytes

\* input_size: the length of the input file.
RECURSIVE input_size(_, _)
input_size(d, members) ==
    IF members = <<>> THEN 0
    ELSE Len(members[1]) * bytes_per_event(d)
            + input_size(d, SubSeq(members, 2, Len(members)))

\* stream_position of the input file when the events before position p have
\* been delivered: the buffered reader around the file has read it by whole
\* buffers, to the end of the file at most.
stream_position(d, members, p) ==
    LET consumed == (p - 1) * bytes_per_event(d)
        buffered == ((consumed + BufCapacity - 1) \div BufCapacity) * BufCapacity
    IN  IF buffered > input_size(d, members) THEN input_size(d, members) ELSE buffered

\* Mutant: a report is due at every iteration.
progress_due_always(current_time, last) == TRUE

\* current_time - last_progress_log >= Duration::from_secs(10)
progress_due(current_time, last) == current_time - last >= 10

\* "Parsing input file at {current_mib}/{input_size_mib}MiB", and when.
progress_report(current_time) ==
    [time |-> current_time,
     current_mib |-> stream_position(decoder, file[1], pos) \div MiB,
     input_size_mib |-> input_size(decoder, file[1]) \div MiB]

\* One iteration of the loop of parse_dump_file_with_streams.
DocumentStep ==
    /\ result = "running"
    /\ stack = <<>>
    /\ LET current_time == now IN
         IF progress_due(current_time, last_progress_log)
         THEN /\ last_progress_log' = current_time
              /\ reports' = Append(reports, progress_report(current_time))
         ELSE UNCHANGED <<last_progress_log, reports>>
    /\ Elapse
    /\ LET p == next_relevant(input, pos)
           event == input[p]
           level == Len(tag_stack)
           Enter(outcome) ==
               IF outcome.t = "err" THEN Terminate("Err", trace)
               ELSE Continue(<<outcome.callee>>, trace)
       IN
         /\ pos' = p + 1
         /\ CASE event.kind = "Start" ->
                   IF level = 0
                   THEN IF event.name # "mediawiki"
                        THEN Terminate("Err", trace) /\ UNCHANGED <<tag_stack, pages_started>>
                        ELSE /\ tag_stack' = Append(tag_stack, event.name)
                             /\ Continue(<<>>, trace)
                             /\ UNCHANGED pages_started
                   ELSE IF level = 1
                   THEN IF event.name = "siteinfo"
                        THEN Enter(parse_siteinfo(event)) /\ UNCHANGED <<tag_stack, pages_started>>
                        ELSE IF event.name = "page"
                        THEN /\ pages_started' = pages_started + 1
                             /\ page_titles' = Append(page_titles, None)
                             /\ LET outcome == parse_page(event) IN
                                  /\ stack' = IF outcome.t = "err" THEN <<>>
                                              ELSE <<outcome.callee>>
                                  /\ result' = IF outcome.t = "err" THEN "Err" ELSE "running"
                                  /\ output_stream' = IF outcome.t = "err"
                                                      THEN drop(output_stream)
                                                      ELSE output_stream
                             /\ UNCHANGED <<tag_stack, json_written, trace>>
                        ELSE Terminate("Err", trace) /\ UNCHANGED <<tag_stack, pages_started>>
                   ELSE Continue(<<>>, trace) /\ UNCHANGED <<tag_stack, pages_started>>
              [] event.kind = "End" ->
                   IF Len(tag_stack) = 0
                   THEN Terminate("Err", trace) /\ UNCHANGED <<tag_stack, pages_started>>
                   ELSE /\ tag_stack' = SubSeq(tag_stack, 1, Len(tag_stack) - 1)
                        /\ IF event.name # tag_stack[Len(tag_stack)]
                           THEN Terminate("Err", trace)
                           ELSE Continue(<<>>, trace)
                        /\ UNCHANGED pages_started
              [] event.kind \in {"Empty", "Text"} ->
                   Terminate("Err", trace) /\ UNCHANGED <<tag_stack, pages_started>>
              [] event.kind = "Eof" ->
                   /\ IF level > 0 THEN Terminate("Err", trace) ELSE Terminate("Ok", trace)
                   /\ UNCHANGED <<tag_stack, pages_started>>
    /\ UNCHANGED <<input, error_log, call, source_vars, download_vars>>

Next ==
    \/ DocumentStep
    \/ SiteinfoStep
    \/ NamespacesStep
    \/ PageStep
    \/ RevisionStep
    \/ ContributorStep
    \/ TextStep
    \/ StringStep

Spec == Init /\ [][Next]_vars

(***************************************************************************)
(* parse_namespaces on any short sequence of events between <namespaces>   *)
(* and </namespaces>, in a dump without pages.                             *)
(***************************************************************************)
MaxNamespaceEvents == 4

NamespaceEvents ==
    { StartWith("namespace", <<<<"key", "-2">>, <<"case", "first-letter">>>>),
      StartWith("namespace", <<<<"key", "0">>, <<"case", "case-sensitive">>>>),
      Text("Media"), Text("\n  "), End("namespace"),
      EmptyWith("namespace", <<<<"key", "1">>, <<"case", "first-letter">>>>),
      Event("Comment", "", <<>>, "note") }

NamespacesDump(body) ==
    <<Start("mediawiki"), Start("siteinfo"), Start("namespaces")>> \o body
        \o <<End("namespaces")>>
        \o Element("sitename", "Wiktionary") \o Element("dbname", "enwiktionary")
        \o Element("base", "https://en.wiktionary.org/wiki/Wiktionary:Main_Page")
        \o Element("generator", "MediaWiki 1.39") \o Element("case", "case-sensitive")
        \o <<End("siteinfo"), End("mediawiki"), Eof>>

InitNamespaces ==
    /\ \E n \in 0..MaxNamespaceEvents :
          \E body \in SeqOfLen(NamespaceEvents, n) : input = NamespacesDump(body)
    /\ pos = 1
    /\ tag_stack = <<>>
    /\ stack = <<>>
    /\ output_stream = NewSink
    /\ error_log = <<>>
    /\ result = "running"
    /\ call = NewCall("", parse_wikitext(TopLevelText, "").wikitext, {})
    /\ json_written = <<>>
    /\ trace = <<>>
    /\ pages_started = 0
    /\ page_titles = <<>>
    /\ input_file = "dump.xml"
    /\ output_file = Some("words.json")
    /\ file = Some(<<Bytes(input)>>)
    /\ decoder = "plain"
    /\ created = {"output_file", "error_log"}
    /\ now = 0
    /\ tick = 0
    /\ last_progress_log = 0
    /\ reports = <<>>
    /\ NoDownload

NextNamespaces ==
    \/ DocumentStep
    \/ SiteinfoStep
    \/ NamespacesStep
    \/ StringStep

SpecNamespaces == InitNamespaces /\ [][NextNamespaces]_vars

\* The same run driven to its end, on the dumps of one page, the truncated
\* ones and the documents of other shapes: the future of parse_dump_file is
\* polled until it is ready, so a step that can be taken is taken.
InitLive ==
    /\ Init
    /\ \/ input \in OtherDumps
       \/ input \in TruncatedDumps
       \/ \E kind \in PageKinds \cup SchemaPageKinds : input = Dump(<<kind>>)

SpecLive == InitLive /\ [][Next]_vars /\ WF_vars(Next)

(***************************************************************************)
(* parse_dump_file from its call: any path, a file that can be opened or   *)
(* not, plain or made of bzip2 members, and steps of any duration.         *)
(***************************************************************************)
Paths ==
    {"dump.xml", "dump.xml.bz2", "/data/v1.2/enwiktionary.xml.bz2", ".xml.bz2",
     "dump.txt/", "a.b/dump.xml",
     "dump.bz2", "dump.tar.bz2", "dumpxml.bz2", "dump.json.bz2",
     ".bz2", ".xml", "dump", "dump.", "dump.txt", "dump.XML", "dump.xml.gz",
     "dump.xml.bz2.bak", "dump.xml/dump", "dump.xml.bz2/..", "xml", "bz2", ""}

\* What the files hold.  A compressed file is one member, or the members
\* that parallel compression leaves: the head of the dump, its pages, its
\* end.  A file holds what its extension says.
PlainFiles ==
    { <<Bytes(Dump(<<"word">>))>>, <<Bytes(Dump(<<"mixed", "word">>))>>, <<<<>>>> }

CompressedFiles ==
    { <<Bytes(Dump(<<"word">>))>>,
      << <<Start("mediawiki")>> \o SiteinfoEvents \o PageEvents("word", 1),
         PageEvents("mixed", 2) \o <<End("mediawiki")>> >>,
      << <<Start("mediawiki")>> \o SiteinfoEvents,
         PageEvents("word", 1),
         <<End("mediawiki")>> >> }

FilesAt(path) == IF ends_with(path, "bz2") THEN CompressedFiles ELSE PlainFiles

InitFiles ==
    /\ input_file \in Paths
    /\ output_file \in {None, Some("words.json")}
    /\ file \in {None} \cup { Some(members) : members \in FilesAt(input_file) }
    /\ tick \in {0, 3, 10}
    /\ decoder = "none"
    /\ created = {}
    /\ result = "opening"
    /\ input = <<Eof>>
    /\ pos = 1
    /\ tag_stack = <<>>
    /\ stack = <<>>
    /\ output_stream = NoSink
    /\ error_log = <<>>
    /\ call = NewCall("", parse_wikitext(TopLevelText, "").wikitext, {})
    /\ json_written = <<>>
    /\ trace = <<>>
    /\ pages_started = 0
    /\ page_titles = <<>>
    /\ now = 0
    /\ last_progress_log = 0
    /\ reports = <<>>
    /\ NoDownload

\* Mutant: the output file and the error log are created before the input
\* file is looked at.
Open_creating_first ==
    /\ result = "opening"
    /\ decoder' = decoder_of(input_file)
    /\ created' = IF output_file = None THEN {"error_log"}
                  ELSE {"output_file", "error_log"}
    /\ IF decoder_of(input_file) = "rejected" \/ file = None
       THEN /\ result' = "Err"
            /\ UNCHANGED <<input, output_stream, last_progress_log>>
       ELSE /\ result' = "running"
            /\ input' = byte_source(decoder_of(input_file), file[1]) \o <<Eof>>
            /\ output_stream' = IF output_file = None THEN NoSink ELSE NewSink
            /\ last_progress_log' = now
    /\ Elapse
    /\ UNCHANGED <<pos, tag_stack, stack, error_log, call, json_written, trace,
                   pages_started, page_titles, input_file, output_file, file, reports,
                   download_vars>>

\* parse_dump_file up to the loop of parse_dump_file_with_streams: the
\* decoder is chosen, the input file is opened, the output file and the error
\* log are created, and the time is taken.
Open ==
    /\ result = "opening"
    /\ decoder' = decoder_of(input_file)
    /\ IF decoder_of(input_file) = "rejected" \/ file = None
       THEN /\ result' = "Err"
            /\ UNCHANGED <<input, output_stream, created, last_progress_log>>
       ELSE /\ result' = "running"
            /\ input' = byte_source(decoder_of(input_file), file[1]) \o <<Eof>>
            /\ output_stream' = IF output_file = None THEN NoSink ELSE NewSink
            /\ created' = IF output_file = None THEN {"error_log"}
                          ELSE {"output_file", "error_log"}
            /\ last_progress_log' = now
    /\ Elapse
    /\ UNCHANGED <<pos, tag_stack, stack, error_log, call, json_written, trace,
                   pages_started, page_titles, input_file, output_file, file, reports,
                   download_vars>>

NextFiles == Open \/ Next

SpecFiles == InitFiles /\ [][NextFiles]_vars

(***************************************************************************)
(* The classifier on its own: any title, any tree, any consumer.           *)
(***************************************************************************)
\* A root with one language section of up to MaxSubsections subsections is
\* walked under the title "cat" at level 1 with a consumer that never fails;
\* the other titles, root levels and consumers are crossed with the small
\* roots.  No dump is being parsed.
InitWords ==
    /\ \/ \E label \in LanguageLabels, n \in 0..MaxSubsections :
            \E subsections \in SeqOfLen(Subsections, n) :
               call = NewCall("cat", Wikitext(1, <<Section(2, label, subsections)>>), {})
       \/ \E title \in Titles, level \in RootLevels, failing \in Failings,
             subsections \in SmallRoots :
               call = NewCall(title, Wikitext(level, subsections), failing)
    /\ input = <<Eof>>
    /\ pos = 1
    /\ tag_stack = <<>>
    /\ stack = <<>>
    /\ output_stream = NoSink
    /\ error_log = <<>>
    /\ result = "running"
    /\ json_written = <<>>
    /\ trace = <<>>
    /\ pages_started = 0
    /\ page_titles = <<>>
    /\ input_file = "dump.xml"
    /\ output_file = None
    /\ file = Some(<<Bytes(input)>>)
    /\ decoder = "plain"
    /\ created = {"error_log"}
    /\ now = 0
    /\ tick = 0
    /\ last_progress_log = 0
    /\ reports = <<>>
    /\ NoDownload

Classify ==
    /\ ~call.returned
    /\ call' = Returned(call.title, call.wikitext, call.failing)
    /\ UNCHANGED pipeline_vars

NextWords == Classify

SpecWords == InitWords /\ [][NextWords]_vars

(***************************************************************************)
(* The download loop of download_file_with_progress_log, which             *)
(* download_language repeats statement for statement: chunks arrive, each  *)
(* is written to the output file, and a progress line with an ETA is       *)
(* logged when more than progress_delay seconds have passed since the      *)
(* last one.  No dump is being parsed.                                     *)
(***************************************************************************)
\* The chunks of one download; each carries one byte.
MaxChunks == 62

\* The progress_delay the caller passes, in seconds.  Instant + Duration is
\* defined for all of them.
ProgressDelays == {0, 1, 2, 7, 30, 31, 59, 60, 61, 3600}

\* The seconds between two chunks of one download.
ChunkIntervals == {0, 1, 2, 61}

\* Mutant: the loop stops one sample early.
pop_front_while_above(deque, amount) ==
    IF Len(deque) > amount
    THEN SubSeq(deque, Len(deque) - amount + 1, Len(deque))
    ELSE deque

\* while last_content_lengths.len() >= retained_content_length_amount
\*     { last_content_lengths.pop_front(); }
\* for an amount of at least one: the newest amount - 1 samples stay.
pop_front_while(deque, amount) ==
    IF Len(deque) >= amount
    THEN SubSeq(deque, Len(deque) - amount + 2, Len(deque))
    ELSE deque

\* The ETA of a progress line: "-" without a front sample, a duration
\* otherwise (its digits are not modelled).
eta_of(deque) == IF deque = <<>> THEN "-" ELSE "duration"

InitDownload ==
    /\ progress_delay \in ProgressDelays
    /\ tick \in ChunkIntervals
    /\ now = 0
    /\ result = "starting"
    /\ retained_content_length_amount = 0
    /\ last_content_lengths = <<>>
    /\ last_progress_output = 0
    /\ current_content_length = 0
    /\ eta = None
    /\ input = <<Eof>>
    /\ pos = 1
    /\ tag_stack = <<>>
    /\ stack = <<>>
    /\ output_stream = NoSink
    /\ error_log = <<>>
    /\ call = NewCall("", parse_wikitext(TopLevelText, "").wikitext, {})
    /\ json_written = <<>>
    /\ trace = <<>>
    /\ pages_started = 0
    /\ page_titles = <<>>
    /\ input_file = "dump.xml"
    /\ output_file = None
    /\ file = None
    /\ decoder = "none"
    /\ created = {}
    /\ last_progress_log = 0
    /\ reports = <<>>

\* From the creation of the output file to the loop: the time is taken, a
\* delay of zero becomes one, the number of retained samples is computed and
\* the first sample is pushed.
StartDownload ==
    /\ result = "starting"
    /\ result' = "running"
    /\ last_progress_output' = now
    /\ progress_delay' = IF progress_delay = 0 THEN 1 ELSE progress_delay
    /\ retained_content_length_amount' =
          IF 60 \div progress_delay' >= 1 THEN 60 \div progress_delay' ELSE 1
    /\ last_content_lengths' = <<[content_length |-> 0, instant |-> now]>>
    /\ UNCHANGED <<current_content_length, eta, input, pos, tag_stack, stack,
                   output_stream, error_log, call, json_written, trace,
                   pages_started, page_titles, source_vars, clock_vars>>

\* One turn of the loop on a chunk that arrives and is written.
Chunk ==
    /\ result = "running"
    /\ current_content_length < MaxChunks
    /\ current_content_length' = current_content_length + 1
    /\ Elapse
    /\ IF last_progress_output + progress_delay < now'
       THEN /\ eta' = Some(eta_of(last_content_lengths))
            /\ last_progress_output' = now'
            /\ last_content_lengths' =
                  Append(IF last_content_lengths = <<>> THEN last_content_lengths
                         ELSE pop_front_while(last_content_lengths,
                                              retained_content_length_amount),
                         [content_length |-> current_content_length', instant |-> now'])
       ELSE UNCHANGED <<eta, last_progress_output, last_content_lengths>>
    /\ UNCHANGED <<result, progress_delay, retained_content_length_amount, input, pos,
                   tag_stack, stack, output_stream, error_log, call, json_written,
                   trace, pages_started, page_titles, source_vars, last_progress_log,
                   reports>>

\* One turn of the loop on a chunk that fails, or that cannot be written.
ChunkFails ==
    /\ result = "running"
    /\ current_content_length < MaxChunks
    /\ result' = "Err"
    /\ Elapse
    /\ UNCHANGED <<download_vars, input, pos, tag_stack, stack, output_stream,
                   error_log, call, json_written, trace, pages_started, page_titles,
                   source_vars, last_progress_log, reports>>

\* The stream ends; the checks that follow the loop accept or reject the
\* file.
DownloadFinished ==
    /\ result = "running"
    /\ result' \in {"Ok", "Err"}
    /\ Elapse
    /\ UNCHANGED <<download_vars, input, pos, tag_stack, stack, output_stream,
                   error_log, call, json_written, trace, pages_started, page_titles,
                   source_vars, last_progress_log, reports>>

NextDownload ==
    \/ StartDownload
    \/ Chunk
    \/ ChunkFails
    \/ DownloadFinished

SpecDownload == InitDownload /\ [][NextDownload]_vars

(***************************************************************************)
(* Vocabulary of the claims about the classifier.                          *)
(***************************************************************************)
Root == call.wikitext.root_section
Languages == Root.subsections
Delivered == call.out.delivered
Errors == call.out.errors

IsWordType(label) == is_match(WORD_TYPE_PATTERN, label)
IsIgnoredSubsection(label) == is_match(IGNORED_SUBSECTION_PATTERN, label)
IsIgnoredLanguage(label) == is_match(IGNORED_LANGUAGE_PATTERN, label)

\* "Numbered Etymology section" as the claims word it.
NumberedEtymology(label) == starts_with(label, "Etymology") /\ label # "Etymology"

\* The call has returned after a complete walk: the title is not ignored, the
\* root is at level 1 and the consumer never failed.
WalkedToEnd ==
    /\ call.returned
    /\ ~is_match(IGNORED_PATTERN, call.title)
    /\ Root.headline.level = 1
    /\ call.failing = {}

\* One Word per section of `sections` whose label matches WordType, in order.
RECURSIVE WordTypeWords(_, _, _)
WordTypeWords(word, lang, sections) ==
    IF Len(sections) = 0 THEN <<>>
    ELSE (IF IsWordType(sections[1].headline.label)
          THEN <<Word(word, lang, sections[1].headline.label)>>
          ELSE <<>>)
         \o WordTypeWords(word, lang, SubSeq(sections, 2, Len(sections)))

\* The Words of the word-type sections below the sections of `parents` that
\* satisfy Test, parent after parent.
RECURSIVE WordsBelow(_, _, _, _)
WordsBelow(Test(_), word, lang, parents) ==
    IF Len(parents) = 0 THEN <<>>
    ELSE (IF Test(parents[1].headline.label)
          THEN WordTypeWords(word, lang, parents[1].subsections)
          ELSE <<>>)
         \o WordsBelow(Test, word, lang, SubSeq(parents, 2, Len(parents)))

\* Expected(l) for every language section l of the root, one after the other.
RECURSIVE ForEachLanguage(_, _)
ForEachLanguage(Expected(_), languages) ==
    IF Len(languages) = 0 THEN <<>>
    ELSE Expected(languages[1])
         \o ForEachLanguage(Expected, SubSeq(languages, 2, Len(languages)))

Occurrences(seq, x) == Cardinality({ i \in DOMAIN seq : seq[i] = x })

\* C2: every Word delivered has the root's label as its word, the label of a
\* language section that is not ignored as its language, and as its type
\* either "Unknown" (the language section has no child) or the label of a
\* word-type section that is a child of the language section or a child of one
\* of its numbered Etymology children; no Word comes from a deeper section.
C2_WordsComeFromSections ==
    call.returned =>
        \A i \in DOMAIN Delivered :
            LET w == Delivered[i] IN
            /\ w.word = Root.headline.label
            /\ \E j \in DOMAIN Languages :
                 LET l == Languages[j] IN
                 /\ w.language_english_name = l.headline.label
                 /\ ~IsIgnoredLanguage(l.headline.label)
                 /\ \/ l.subsections = <<>> /\ w.word_type = "Unknown"
                    \/ \E k \in DOMAIN l.subsections :
                         LET c == l.subsections[k] IN
                         \/ IsWordType(c.headline.label) /\ w.word_type = c.headline.label
                         \/ /\ NumberedEtymology(c.headline.label)
                            /\ \E m \in DOMAIN c.subsections :
                                 /\ IsWordType(c.subsections[m].headline.label)
                                 /\ w.word_type = c.subsections[m].headline.label

\* A walk that delivered Words of both levels of one language section.
C2_Witness ==
    /\ call.returned
    /\ \E i, j \in DOMAIN Delivered :
         Delivered[i].word_type = "Verb" /\ Delivered[j].word_type = "Etymology Noun"

\* C5: with a consumer that never fails the classifier returns Ok, whatever
\* the title and the tree, and whatever it handed to the error consumer.
C5_ClassifierNeverAborts ==
    (call.returned /\ call.failing = {}) => ~call.out.failed

\* Walks that returned Ok after reporting errors: a root that is not at level
\* 1, and a language section with several classification errors.
C5_Witness ==
    /\ call.returned /\ call.failing = {} /\ ~call.out.failed
    /\ Len(Errors) >= 2

\* C6: a language section that is not ignored and has no child yields exactly
\* the Word (headword, language, "Unknown") and no error.
StubLanguage(l) == ~IsIgnoredLanguage(l.headline.label) /\ l.subsections = <<>>

StubWords(l) == <<Word(Root.headline.label, l.headline.label, "Unknown")>>

C6_StubLanguage ==
    (WalkedToEnd /\ \A j \in DOMAIN Languages : StubLanguage(Languages[j])) =>
        /\ Delivered = ForEachLanguage(StubWords, Languages)
        /\ Errors = <<>>

C6_Witness ==
    /\ WalkedToEnd
    /\ Len(Languages) = 2
    /\ \A j \in DOMAIN Languages : StubLanguage(Languages[j])
    /\ Len(Delivered) = 2

\* A child that the classifier handles as a top-level detail, and one that it
\* handles as a numbered Etymology section (the first matching rule wins).
TopLevelChild(label) == label = "Etymology" \/ IsWordType(label)
BottomLevelChild(label) == NumberedEtymology(label) /\ ~IsWordType(label)

Children(l) == { l.subsections[k].headline.label : k \in DOMAIN l.subsections }

Processed(l) == ~IsIgnoredLanguage(l.headline.label) /\ l.subsections # <<>>

TopWords(l) == WordTypeWords(Root.headline.label, l.headline.label, l.subsections)

BottomWords(l) ==
    WordsBelow(BottomLevelChild, Root.headline.label, l.headline.label, l.subsections)

\* C7 as claimed: a language section all of whose children are labelled
\* "Etymology", match WordType or match IgnoredSubsection, with at least one
\* of the first two kinds, yields one Word per word-type child, in document
\* order, and no error.
TopShapeAsClaimed(l) ==
    /\ Processed(l)
    /\ \A label \in Children(l) : TopLevelChild(label) \/ IsIgnoredSubsection(label)
    /\ \E label \in Children(l) : TopLevelChild(label)

C7_TopLevelShapeAsClaimed ==
    (WalkedToEnd /\ \A j \in DOMAIN Languages : TopShapeAsClaimed(Languages[j])) =>
        /\ Delivered = ForEachLanguage(TopWords, Languages)
        /\ Errors = <<>>

\* C7 as amended: the same, for a language section none of whose children is
\* handled as a numbered Etymology section.
TopShape(l) ==
    /\ TopShapeAsClaimed(l)
    /\ \A label \in Children(l) : ~BottomLevelChild(label)

C7_TopLevelShape ==
    (WalkedToEnd /\ \A j \in DOMAIN Languages : TopShape(Languages[j])) =>
        /\ Delivered = ForEachLanguage(TopWords, Languages)
        /\ Errors = <<>>

\* A top-level section with two word-type children, both delivered in order.
C7_Witness ==
    /\ WalkedToEnd
    /\ Len(Languages) = 1 /\ TopShape(Languages[1])
    /\ Len(Delivered) = 2
    /\ Delivered[1].word_type = "Noun" /\ Delivered[2].word_type = "Etymology Noun"

\* C8 as claimed: a language section whose children are all numbered Etymology
\* sections holding only word-type or ignored sections yields one Word per
\* word-type grandchild, Etymology section after Etymology section, and no error.
OnlyDetails(c) ==
    \A m \in DOMAIN c.subsections :
        \/ IsWordType(c.subsections[m].headline.label)
        \/ IsIgnoredSubsection(c.subsections[m].headline.label)

BottomShapeAsClaimed(l) ==
    /\ Processed(l)
    /\ \A k \in DOMAIN l.subsections :
         NumberedEtymology(l.subsections[k].headline.label) /\ OnlyDetails(l.subsections[k])

WordsBelowNumbered(l) ==
    WordsBelow(NumberedEtymology, Root.headline.label, l.headline.label, l.subsections)

C8_BottomLevelShapeAsClaimed ==
    (WalkedToEnd /\ \A j \in DOMAIN Languages : BottomShapeAsClaimed(Languages[j])) =>
        /\ Delivered = ForEachLanguage(WordsBelowNumbered, Languages)
        /\ Errors = <<>>

\* C8 as amended: the same, when no numbered Etymology label matches WordType.
BottomShape(l) ==
    /\ BottomShapeAsClaimed(l)
    /\ \A label \in Children(l) : BottomLevelChild(label)

C8_BottomLevelShape ==
    (WalkedToEnd /\ \A j \in DOMAIN Languages : BottomShape(Languages[j])) =>
        /\ Delivered = ForEachLanguage(BottomWords, Languages)
        /\ Errors = <<>>

\* Two Etymology sections, the second repeating a word type of the first.
C8_Witness ==
    /\ WalkedToEnd
    /\ Len(Languages) = 1 /\ BottomShape(Languages[1])
    /\ Len(Languages[1].subsections) = 2
    /\ Len(Delivered) = 3
    /\ Delivered[1].word_type = "Noun" /\ Delivered[2].word_type = "Verb"
    /\ Delivered[3].word_type = "Noun"

\* C9 as claimed: a language section is reported with exactly one "Found both"
\* error when it has a child labelled "Etymology" or matching WordType and a
\* child that is a numbered Etymology section, and with none otherwise; the
\* Words of both levels are delivered all the same.
FoundBoth(l) ==
    "Found both toplevel and bottomlevel details for language " \o l.headline.label

MixedAsClaimed(l) ==
    /\ \E label \in Children(l) : TopLevelChild(label)
    /\ \E label \in Children(l) : NumberedEtymology(label)

C9_MixedShapeAsClaimed ==
    (WalkedToEnd /\ Len(Languages) = 1 /\ Processed(Languages[1])) =>
        LET l == Languages[1] IN
        /\ Occurrences(Errors, FoundBoth(l)) = (IF MixedAsClaimed(l) THEN 1 ELSE 0)
        /\ MixedAsClaimed(l) => Delivered = BottomWords(l) \o TopWords(l)

\* C9 as amended: the numbered Etymology child is one that does not match
\* WordType.
Mixed(l) ==
    /\ \E label \in Children(l) : TopLevelChild(label)
    /\ \E label \in Children(l) : BottomLevelChild(label)

C9_MixedShape ==
    (WalkedToEnd /\ Len(Languages) = 1 /\ Processed(Languages[1])) =>
        LET l == Languages[1] IN
        /\ Occurrences(Errors, FoundBoth(l)) = (IF Mixed(l) THEN 1 ELSE 0)
        /\ Mixed(l) => Delivered = BottomWords(l) \o TopWords(l)

\* A mixed section reported once, with a Word of each level delivered.
C9_Witness ==
    /\ WalkedToEnd /\ Len(Languages) = 1 /\ Processed(Languages[1])
    /\ Mixed(Languages[1])
    /\ Occurrences(Errors, FoundBoth(Languages[1])) = 1
    /\ BottomWords(Languages[1]) # <<>> /\ TopWords(Languages[1]) # <<>>
    /\ Delivered = BottomWords(Languages[1]) \o TopWords(Languages[1])

(***************************************************************************)
(* Unknown subsections of a language.                                      *)
(***************************************************************************)
Order == call.out.order

UnknownSubsection(label) == "Unknown subsection of language: " \o label

IsUnknownSubsectionError(error) == starts_with(error, "Unknown subsection of language: ")

\* The errors buffered for a language section: one for each direct child
\* that is neither top-level, nor bottom-level, nor ignored, in order.
RECURSIVE BufferedErrors(_)
BufferedErrors(sections) ==
    IF Len(sections) = 0 THEN <<>>
    ELSE LET label == sections[1].headline.label IN
         (IF TopLevelChild(label) \/ BottomLevelChild(label) \/ IsIgnoredSubsection(label)
          THEN <<>> ELSE <<UnknownSubsection(label)>>)
         \o BufferedErrors(SubSeq(sections, 2, Len(sections)))

Last(seq, n) == SubSeq(seq, Len(seq) - n + 1, Len(seq))
AllButLast(seq, n) == SubSeq(seq, 1, Len(seq) - n)

\* The buffered errors of l were delivered last, after the "Found both"
\* error if l has top-level children too, and after every Word.
FlushedLast(l) ==
    LET buffered == BufferedErrors(l.subsections)
        both == \E label \in Children(l) : TopLevelChild(label)
        tail == Len(buffered) + (IF both THEN 1 ELSE 0)
    IN  /\ Len(Errors) >= tail
        /\ Last(Errors, Len(buffered)) = buffered
        /\ both => AllButLast(Errors, Len(buffered))[Len(Errors) - Len(buffered)] = FoundBoth(l)
        /\ \A k \in 1..(Len(Errors) - Len(buffered)) : ~IsUnknownSubsectionError(Errors[k])
        /\ \A k \in 1..tail : Order[Len(Order) - tail + k] = "error"

NeverDelivered == \A k \in DOMAIN Errors : ~IsUnknownSubsectionError(Errors[k])

PureTopLevelShape(l) ==
    /\ Processed(l)
    /\ \E label \in Children(l) : TopLevelChild(label)
    /\ ~\E label \in Children(l) : NumberedEtymology(label)

UnknownChild(label) == ~IsWordType(label) /\ ~IsIgnoredSubsection(label)

UnknownDetails(label) == "Unknown details subsection: " \o label

\* One "Unknown details subsection" error per unknown section, in order.
RECURSIVE UnknownDetailsErrors(_)
UnknownDetailsErrors(sections) ==
    IF Len(sections) = 0 THEN <<>>
    ELSE (IF UnknownChild(sections[1].headline.label)
          THEN <<UnknownDetails(sections[1].headline.label)>>
          ELSE <<>>)
         \o UnknownDetailsErrors(SubSeq(sections, 2, Len(sections)))

NormalWords(l) ==
    IF l.subsections = <<>>
    THEN <<Word(Root.headline.label, l.headline.label, "Unknown")>>
    ELSE BottomWords(l) \o TopWords(l)

\* C18: a language section is skipped (no Word, no error) if its label is
\* exactly "Translingual", and only then: a section with any other label,
\* also one that contains "Translingual", delivers its Words.
C18_OnlyExactTranslingualSkipped ==
    (WalkedToEnd /\ Len(Languages) = 1) =>
        LET l == Languages[1] IN
        IF l.headline.label = "Translingual"
        THEN Delivered = <<>> /\ Errors = <<>>
        ELSE Delivered = NormalWords(l)

(***************************************************************************)
(* A root section that is not at level 1.                                  *)
(***************************************************************************)
RootNotAtLevel1 == "Root section is not at headline level 1"

\* C19: for a title that is not ignored and a root section at a level other
\* than 1, the error consumer is invoked once, with "Root section is not at
\* headline level 1", no Word is delivered, whatever the children are, and
\* the classifier returns Ok, also with a consumer that would have failed.
C19_RootLevelChecked ==
    (call.returned /\ ~is_match(IGNORED_PATTERN, call.title) /\ Root.headline.level # 1) =>
        /\ Errors = <<RootNotAtLevel1>>
        /\ Delivered = <<>>
        /\ Order = <<"error">>
        /\ ~call.out.failed

\* A root at level 2 above a language stub, with a consumer that fails on
\* its first Word: one error, no Word, Ok.
C19_Witness ==
    /\ call.returned /\ ~is_match(IGNORED_PATTERN, call.title)
    /\ Root.headline.level = 2
    /\ Len(Languages) >= 1 /\ StubLanguage(Languages[1])
    /\ call.failing = {1}
    /\ Errors = <<RootNotAtLevel1>> /\ Delivered = <<>> /\ ~call.out.failed

(***************************************************************************)
(* Vocabulary of the claims about the pipeline.                            *)
(***************************************************************************)
IsPrefix(a, b) == Len(a) <= Len(b) /\ a = SubSeq(b, 1, Len(a))

\* The page with this ordinal has a <title> that matches IGNORED_PATTERN.
IgnoredTitle(page) ==
    /\ page >= 1
    /\ page_titles[page] # None
    /\ is_match(IGNORED_PATTERN, page_titles[page][1])

TraceIndex == 1..Len(trace)

\* C1: when parse_dump_file has returned Ok and an output file was
\* configured, the file holds every document that was handed to write_all,
\* in order; nothing was left in the write buffer.
C1_SinkCompleteOnOk ==
    (result = "Ok" /\ output_stream.some) => output_stream.file = json_written

\* C3: a page whose title matches IGNORED_PATTERN has no Word delivered to
\* the consumer and no section written to the error log.
C3_IgnoredTitleSilent ==
    \A i \in TraceIndex :
        trace[i].kind \in {"word", "log"} => ~IgnoredTitle(trace[i].page)

\* C4: a Word that the consumer fails on is the last thing that happens:
\* the consumer is not invoked again, nothing more is written, the run has
\* returned Err, and the event being handled is the last event read.
C4_ConsumerFailureStopsRun ==
    \A i \in TraceIndex :
        (trace[i].kind = "word" /\ ~trace[i].ok) =>
            /\ i = Len(trace)
            /\ result = "Err"
            /\ stack = <<>>
            /\ pos = trace[i].reads + 1

\* The consumer failed on the second Word of the second page, after the
\* Words of the first page were delivered, with events left unread.
C4_Witness ==
    /\ Len(trace) > 0
    /\ ~trace[Len(trace)].ok
    /\ trace[Len(trace)].page = 2
    /\ \E i, j \in TraceIndex :
          /\ trace[i].kind = "word" /\ trace[i].page = 1
          /\ trace[j].kind = "word" /\ trace[j].page = 2 /\ trace[j].ok
    /\ pos < Len(input)
    /\ result = "Err"

\* The id that the dump gives to its q-th page: its ordinal, or the value of
\* the integer that stands in its <id>.
IdOfPage(q) ==
    LET texts == { text \in IntegerTexts : input = IntegerDump("page_id", text) } IN
    IF texts = {} THEN ToString(q)
    ELSE LET id == parse_i64(CHOOSE text \in texts : TRUE) IN
         IF id = None THEN "" ELSE id[1]

\* C10: page order is preserved.  The trace never goes back to an earlier
\* page, the JSON document of a page comes after every Word and every
\* error-log section of that page, the k-th write_all call carries the
\* document of the k-th element that closed, and the sink keeps the
\* documents in the order of the write_all calls.
C10_PageOrderPreserved ==
    /\ \A i, j \in TraceIndex : i < j => trace[i].page <= trace[j].page
    /\ \A i, j \in TraceIndex :
          (trace[i].kind = "json" /\ i < j /\ trace[j].kind # "siteinfo") =>
              trace[i].page < trace[j].page
    /\ LET json == SelectSeq(trace, LAMBDA e : e.kind \in {"json", "siteinfo"}) IN
          /\ Len(json) = Len(json_written)
          /\ \A k \in 1..Len(json) :
                IF json[k].kind = "siteinfo" THEN "sitename" \in DOMAIN json_written[k]
                ELSE /\ "revision" \in DOMAIN json_written[k]
                     /\ json_written[k].id = IdOfPage(json[k].page)
    /\ IsPrefix(output_stream.file, json_written)
    /\ result = "running" =>
          output_stream.file \o output_stream.buffer = json_written

\* Two pages with Words went through: the Words of the first, its document,
\* the Words of the second, its document, and a document that filled the
\* buffer has pushed the earlier ones into the file.
C10_Witness ==
    /\ \E i, j, k, l \in TraceIndex :
          /\ i < j /\ j < k /\ k < l
          /\ trace[i].kind = "word" /\ trace[i].page = 1
          /\ trace[j].kind = "json" /\ trace[j].page = 1
          /\ trace[k].kind = "word" /\ trace[k].page = 2
          /\ trace[l].kind = "json" /\ trace[l].page = 2
    /\ Len(output_stream.file) = 3

(***************************************************************************)
(* The shape of a document: the names of the root elements and of their    *)
(* direct children, in order, with "/name" where a root element closes.    *)
(***************************************************************************)
RECURSIVE outline_from(_, _, _)
outline_from(events, i, depth) ==
    IF i > Len(events) THEN <<>>
    ELSE LET e == events[i] IN
         CASE e.kind = "Start" ->
                (IF depth <= 1 THEN <<e.name>> ELSE <<>>)
                    \o outline_from(events, i + 1, depth + 1)
           [] e.kind = "End" ->
                (IF depth <= 1 THEN <<"/" \o e.name>> ELSE <<>>)
                    \o outline_from(events, i + 1, depth - 1)
           [] e.kind = "Empty" ->
                (IF depth <= 1 THEN <<e.name>> ELSE <<>>)
                    \o outline_from(events, i + 1, depth)
           [] OTHER -> outline_from(events, i + 1, depth)

Outline == outline_from(input, 1, 0)

\* Nothing at all, or <mediawiki>, one <siteinfo>, pages, </mediawiki>.
WellShaped(outline) ==
    \/ outline = <<>>
    \/ /\ Len(outline) >= 3
       /\ outline[1] = "mediawiki"
       /\ outline[2] = "siteinfo"
       /\ outline[Len(outline)] = "/mediawiki"
       /\ \A k \in 3..(Len(outline) - 1) : outline[k] = "page"

\* C11: parse_dump_file returns Ok only for a document of the shape
\* <mediawiki>, exactly one <siteinfo> before every <page>, pages,
\* </mediawiki>, end of file.
C11_OnlyWellShapedAccepted == result = "Ok" => WellShaped(Outline)

(***************************************************************************)
(* The schema table: the child tags listed for an element, as start tags   *)
(* and as empty tags.  A simple string field, a namespace and a text list  *)
(* none; the table says nothing about the children of the root.            *)
(***************************************************************************)
ListedStart(parent) ==
    CASE parent = "siteinfo" ->
            {"sitename", "dbname", "base", "generator", "case", "namespaces"}
      [] parent = "namespaces" -> {"namespace"}
      [] parent = "page" -> {"title", "ns", "id", "revision"}
      [] parent = "revision" ->
            {"id", "parentid", "timestamp", "contributor", "comment", "model",
             "format", "text", "sha1"}
      [] parent = "contributor" -> {"username", "id", "ip"}
      [] OTHER -> {}

ListedEmpty(parent) ==
    CASE parent = "namespaces" -> {"namespace"}
      [] parent = "page" -> {"redirect"}
      [] parent = "revision" -> {"minor", "comment", "text", "contributor"}
      [] OTHER -> {}

\* Some start or empty tag at or after position i, below the root, is not
\* listed for the element that encloses it.
RECURSIVE unlisted_child_from(_, _, _)
unlisted_child_from(events, i, parents) ==
    IF i > Len(events) THEN FALSE
    ELSE LET e == events[i]
             parent == parents[Len(parents)]
             below == Len(parents) > 0 /\ parent # "mediawiki"
         IN  CASE e.kind = "Start" ->
                    \/ below /\ e.name \notin ListedStart(parent)
                    \/ unlisted_child_from(events, i + 1, Append(parents, e.name))
               [] e.kind = "Empty" ->
                    \/ below /\ e.name \notin ListedEmpty(parent)
                    \/ unlisted_child_from(events, i + 1, parents)
               [] e.kind = "End" ->
                    unlisted_child_from(events, i + 1,
                        IF Len(parents) > 0 THEN SubSeq(parents, 1, Len(parents) - 1)
                        ELSE parents)
               [] OTHER -> unlisted_child_from(events, i + 1, parents)

HasUnlistedChild == unlisted_child_from(input, 1, <<>>)

\* C12: a dump in which some element has a child tag that the schema table
\* does not list for it, as a start tag or as an empty tag, is not accepted.
C12_UnlistedChildFatal == result = "Ok" => ~HasUnlistedChild

(***************************************************************************)
(* Required fields.                                                        *)
(***************************************************************************)
\* The fields that the schema table requires of the element of a frame.
RequiredFields(f) ==
    CASE f.fn = "parse_siteinfo" ->
            {"sitename", "dbname", "base", "generator", "case", "namespaces"}
      [] f.fn = "parse_page" -> {"title", "namespace", "id", "revision"}
      [] f.fn = "parse_revision" -> {"id", "timestamp", "model", "format", "sha1"}
      [] f.fn = "parse_text" -> {"xml_space"}

RequiredSet(f) == \A field \in RequiredFields(f) : f[field] # None

\* The innermost parser is about to read the End tag of its own element.
AtOwnEnd(fns) ==
    /\ result = "running"
    /\ Len(stack) > 0
    /\ Top.fn \in fns
    /\ NextEvent.kind = "End"
    /\ NextEvent.name = Top.tag

\* C13: on its own End tag a parser whose required fields are not all set
\* returns an error, which ends the run; the parsers of siteinfo, page and
\* revision return Ok whenever the required fields are set, whichever
\* optional fields are absent, and the run goes on in the caller.
C13_RequiredFieldsValidated ==
    [][/\ AtOwnEnd({"parse_siteinfo", "parse_page", "parse_revision", "parse_text"})
          => (~RequiredSet(Top) => result' = "Err")
       /\ AtOwnEnd({"parse_siteinfo", "parse_page", "parse_revision"})
          => (RequiredSet(Top) =>
                 /\ result' = "running"
                 /\ Len(stack') = Len(stack) - 1)]_vars

\* A page without a <title> was refused at its </page>.
C13_Witness ==
    /\ result = "Err"
    /\ pos > 1
    /\ input[pos - 1] = End("page")
    /\ page_titles = <<None>>

(***************************************************************************)
(* Repeated children.                                                      *)
(***************************************************************************)
\* The elements whose child tags are single-valued.
SingleValuedParents == {"siteinfo", "page", "revision", "contributor"}

\* Some element at or after position i repeats a child tag of an open
\* single-valued parent; parents holds, for each open element, its name and
\* the names of the children it has had so far.
RECURSIVE repeated_child_from(_, _, _)
repeated_child_from(events, i, parents) ==
    IF i > Len(events) THEN FALSE
    ELSE LET e == events[i]
             n == Len(parents)
             repeats == /\ n > 0
                        /\ parents[n].name \in SingleValuedParents
                        /\ e.name \in parents[n].seen
             noted == IF n > 0
                      THEN [parents EXCEPT ![n].seen = @ \cup {e.name}]
                      ELSE parents
         IN  CASE e.kind = "Start" ->
                    \/ repeats
                    \/ repeated_child_from(events, i + 1,
                           Append(noted, [name |-> e.name, seen |-> {}]))
               [] e.kind = "Empty" ->
                    repeats \/ repeated_child_from(events, i + 1, noted)
               [] e.kind = "End" ->
                    repeated_child_from(events, i + 1,
                        IF n > 0 THEN SubSeq(parents, 1, n - 1) ELSE parents)
               [] OTHER -> repeated_child_from(events, i + 1, parents)

HasRepeatedChild == repeated_child_from(input, 1, <<>>)

\* C14: a dump in which a siteinfo, a page, a revision or a contributor has
\* the same child tag twice is not accepted.
C14_RepeatedChildRefused == result = "Ok" => ~HasRepeatedChild

\* C15: every Siteinfo that parse_siteinfo returned (and that was handed to
\* the JSON sink) has a non-empty sitename, dbname, base, generator and
\* case, and at least one Namespace.
C15_SiteinfoFieldsNonEmpty ==
    \A k \in 1..Len(json_written) :
        "sitename" \in DOMAIN json_written[k] =>
            /\ \A field \in {"sitename", "dbname", "base", "generator", "case"} :
                  json_written[k][field] # ""
            /\ Len(json_written[k].namespaces) >= 1

(***************************************************************************)
(* The sections of the error log.                                          *)
(***************************************************************************)
\* parse_text is about to handle the text of its element.
TextParsed == Running("parse_text") /\ NextEvent.kind = "Text" /\ Top.text = None

\* The title that parse_text was given: the one read so far in the page.
PageName == IF Top.title = None THEN "" ELSE Top.title[1]

ParserErrors == parse_wikitext(NextEvent.text, PageName).errors

\* new is old followed by one section for the page: the "Page:" line, the
\* parser errors, one entry for each classifier error, the "Content:" block;
\* or by nothing when there is no error.
LogSection(old, new, page_name, raw_text, parser_errors, word_errors) ==
    IF parser_errors = <<>> /\ word_errors = <<>>
    THEN new = old
    ELSE /\ Len(new) = Len(old) + 2 + Len(parser_errors) + Len(word_errors)
         /\ SubSeq(new, 1, Len(old)) = old
         /\ new[Len(old) + 1] = "Page: " \o page_name
         /\ \A k \in DOMAIN parser_errors : new[Len(old) + 1 + k] = parser_errors[k]
         /\ \A k \in DOMAIN word_errors :
               Contains(new[Len(old) + 1 + Len(parser_errors) + k], word_errors[k])
         /\ new[Len(new)] = "\nContent: " \o raw_text \o "\n"

OnlyWhitespace(text) ==
    \A i \in 1..Len(text) : SubSeq(text, i, i) \in {" ", "\t", "\n", "\f", "\r"}

Forwarded(event) ==
    \/ event.kind \in {"Start", "End", "Empty", "Eof"}
    \/ event.kind = "Text" /\ ~OnlyWhitespace(event.text)

Dropped(event) ==
    \/ event.kind \in {"Comment", "CData", "Decl", "PI", "DocType"}
    \/ event.kind = "Text" /\ OnlyWhitespace(event.text)

\* C21: every step of a parser reads the events from the reading position
\* up to and including the first Start, End, Empty, Eof or Text with a byte
\* that is not ASCII whitespace; that event is the one it handles, and every
\* event read before it is a Comment, CData, Decl, PI, DocType or
\* whitespace-only Text, which no parser handles.  So the parsers see the
\* forwarded events, all of them, in their order.
C21_FilterForwardsRelevantEvents ==
    [][/\ pos' > pos
       /\ Forwarded(input[pos' - 1])
       /\ NextEvent = input[pos' - 1]
       /\ \A k \in pos..(pos' - 2) : Dropped(input[k])]_vars

\* A step handled the text of <comment> after a CDATA section was dropped,
\* and the next one its End tag after a whitespace-only text was dropped.
C21_Witness ==
    /\ pos > 3
    /\ input[pos - 1].kind = "End"
    /\ input[pos - 2].kind = "Text" /\ OnlyWhitespace(input[pos - 2].text)
    /\ input[pos - 3].kind = "Text" /\ input[pos - 3].text = "typo"
    /\ input[pos - 4].kind = "CData"

(***************************************************************************)
(* The choice of the decoder.                                              *)
(***************************************************************************)
Opened == decoder # "none"

\* C22: a path that ends in ".xml.bz2" is read through the bzip2 decoder, one
\* that ends in ".xml" as plain XML, and every other path is refused, also
\* one that ends in ".bz2" without ".xml" before it.
C22_DecoderByFileName ==
    Opened =>
        decoder = IF ends_with(input_file, ".xml.bz2") THEN "bzip2"
                  ELSE IF ends_with(input_file, ".xml") THEN "plain"
                  ELSE "rejected"

(***************************************************************************)
(* Files of several bzip2 members.                                         *)
(***************************************************************************)
RECURSIVE Concatenation(_)
Concatenation(members) ==
    IF members = <<>> THEN <<>>
    ELSE members[1] \o Concatenation(SubSeq(members, 2, Len(members)))

\* C23: of a file read through the bzip2 decoder the reader is given the
\* decompressed bytes of every member, in order, and the end of input after
\* the last of them.
C23_EveryMemberDecoded ==
    (decoder = "bzip2" /\ file # None) =>
        input = Concatenation(file[1]) \o <<Eof>>

(***************************************************************************)
(* Integers.                                                               *)
(***************************************************************************)
\* The texts of IntegerTexts that are decimal integers from -2^63 to
\* 2^63 - 1, with the value each of them denotes.
DecimalI64 ==
    [text \in {"0", "-1", "+7", "007", "-0", "9223372036854775807",
               "-9223372036854775808"} |->
        CASE text = "+7" -> "7" [] text = "007" -> "7" [] text = "-0" -> "0"
          [] OTHER -> text]

\* The value of a text as a decimal integer from -2^63 to 2^63 - 1, None when
\* it is not one: an optional sign, then digits, at least one, whose number
\* is within the bounds.  The texts of IntegerTexts are judged by the table.
DecimalValue(text) ==
    IF text \in IntegerTexts
    THEN IF text \in DOMAIN DecimalI64 THEN Some(DecimalI64[text]) ELSE None
    ELSE LET sign == IF Len(text) > 0 /\ SubSeq(text, 1, 1) \in {"+", "-"}
                     THEN SubSeq(text, 1, 1) ELSE ""
             number == strip_zeros(SubSeq(text, Len(sign) + 1, Len(text)))
             bound == IF sign = "-" THEN "9223372036854775808" ELSE "9223372036854775807"
         IN  IF number = "" \/ ~all_digits(number) \/ ~digits_leq(number, bound)
             THEN None
             ELSE Some(IF sign = "-" /\ number # "0" THEN "-" \o number ELSE number)

\* The element parser that reads an integer from its child `tag`, and the
\* field in which it keeps it.
IntegerField(fn, tag) ==
    CASE fn = "parse_page" /\ tag = "ns" -> "namespace"
      [] fn = "parse_page" /\ tag = "id" -> "id"
      [] fn = "parse_revision" /\ tag \in {"id", "parentid"} -> tag
      [] fn = "parse_contributor" /\ tag = "id" -> "id"
      [] OTHER -> ""

\* The text of an integer element has been read and its End tag comes next.
IntegerElementEnds ==
    /\ Running("parse_string") /\ Len(stack) >= 2
    /\ NextEvent = End(Top.tag)
    /\ IntegerField(stack[Len(stack) - 1].fn, Top.tag) # ""

\* A <namespace> start tag with its two attributes comes next.
NamespaceKeyRead ==
    /\ Running("parse_namespaces")
    /\ NextEvent.kind = "Start" /\ NextEvent.name = "namespace"
    /\ Top.current_namespace_tag = None
    /\ try_get_attribute(NextEvent.attrs, "key") # None
    /\ try_get_attribute(NextEvent.attrs, "case") # None

\* C24: when the text of ns, of an id or of parentid, or the key attribute
\* of a namespace, is a decimal integer from -2^63 to 2^63 - 1, the parser
\* keeps its value and the run goes on; with any other text the run fails.
C24_IntegersAreSigned64 ==
    [][/\ IntegerElementEnds =>
            IF DecimalValue(Top.value) # None
            THEN /\ result' = "running"
                 /\ Len(stack') = Len(stack) - 1
                 /\ stack'[Len(stack')][IntegerField(stack[Len(stack) - 1].fn, Top.tag)]
                       = DecimalValue(Top.value)
            ELSE result' = "Err"
       /\ NamespaceKeyRead =>
            LET key == try_get_attribute(NextEvent.attrs, "key")[1] IN
            IF DecimalValue(key) # None
            THEN /\ result' = "running"
                 /\ stack'[Len(stack')].current_namespace_tag[1].key = DecimalValue(key)[1]
            ELSE result' = "Err"]_vars

\* The largest i64 was read as the id of a revision, and the page was
\* written with it.
C24_Witness ==
    /\ input = IntegerDump("revision_id", "9223372036854775807")
    /\ result = "Ok"
    /\ Len(json_written) = 2
    /\ json_written[2].revision.id = "9223372036854775807"

(***************************************************************************)
(* The bytes attribute of <text>.                                          *)
(***************************************************************************)
RECURSIVE WithoutBytes(_)
WithoutBytes(attrs) ==
    IF attrs = <<>> THEN <<>>
    ELSE (IF attrs[1][1] = "bytes" THEN <<>> ELSE <<attrs[1]>>)
            \o WithoutBytes(SubSeq(attrs, 2, Len(attrs)))

\* parse_revision is about to read the start tag of a <text> element.
TextStarts ==
    /\ Running("parse_revision")
    /\ NextEvent.kind = "Start" /\ NextEvent.name = "text"

\* C25: whatever the bytes attribute of a <text> start tag holds, the parsing
\* goes on as it would without the attribute: it fails when it would have
\* failed, and else parse_text starts in the same state, the value of bytes
\* left aside (nothing but a warning reads it afterwards).
C25_BytesIsAdvisory ==
    [][TextStarts =>
          LET without == parse_text(Top, [NextEvent EXCEPT !.attrs = WithoutBytes(@)]) IN
          /\ (result' = "Err") = (without.t = "err")
          /\ without.t # "err" =>
                /\ Len(stack') = Len(stack) + 1
                /\ [stack'[Len(stack')] EXCEPT !.bytes = None] = without.callee]_vars

(***************************************************************************)
(* Progress reports.                                                       *)
(***************************************************************************)
\* C26: from one progress report to the next at least 10 seconds pass, and
\* the position in the input file that is reported does not decrease.
C26_ProgressReportsOrdered ==
    \A i \in 1..(Len(reports) - 1) :
        /\ reports[i + 1].time - reports[i].time >= 10
        /\ reports[i + 1].current_mib >= reports[i].current_mib

\* Two reports of a run on a compressed file, more than 10 seconds after
\* one another, the second one further in the file.
C26_Witness ==
    /\ decoder = "bzip2" /\ tick = 3
    /\ Len(reports) >= 2
    /\ reports[2].time - reports[1].time > 10
    /\ reports[2].current_mib > reports[1].current_mib

(***************************************************************************)
(* Emission order inside one language section.                             *)
(***************************************************************************)
\* C27 as claimed: in a language section the Words below its numbered
\* Etymology children are delivered first, child after child, and the Words
\* of its own word-type children are delivered after them, wherever those
\* children stand in the document.
C27_EmissionOrderAsClaimed ==
    (WalkedToEnd /\ Len(Languages) = 1 /\ Processed(Languages[1])) =>
        Delivered = WordsBelowNumbered(Languages[1]) \o TopWords(Languages[1])

\* C27 as amended: the same, for the numbered Etymology children that do not
\* match WordType; one that matches WordType is itself a word-type child of
\* the section and is delivered with those, after the pass.
C27_EmissionOrder ==
    (WalkedToEnd /\ Len(Languages) = 1 /\ Processed(Languages[1])) =>
        Delivered = BottomWords(Languages[1]) \o TopWords(Languages[1])

\* A word-type child standing before "Etymology 1" is delivered after the
\* Word found under "Etymology 1".
C27_Witness ==
    /\ WalkedToEnd /\ Len(Languages) = 1 /\ Processed(Languages[1])
    /\ Len(Languages[1].subsections) = 2
    /\ Languages[1].subsections[1].headline.label = "Noun"
    /\ Languages[1].subsections[2].headline.label = "Etymology 1"
    /\ Len(Delivered) = 2
    /\ Delivered[1].word_type = "Verb" /\ Delivered[2].word_type = "Noun"

(***************************************************************************)
(* Cancellation by the word consumer.                                      *)
(***************************************************************************)
\* The consumer has failed on the i-th entry of the trace.
ConsumerFailedAt(i) == trace[i].kind = "word" /\ ~trace[i].ok

\* What a failed consumer call leaves of the earlier elements and of the
\* later pages: with an output file, the document of the siteinfo that
\* closed before and of every earlier page has been handed to write_all,
\* none has been handed over for the page itself, and no later page was
\* begun.
CancelledAt(i) ==
    LET p == trace[i].page IN
    /\ \A j \in TraceIndex : ~(trace[j].kind = "json" /\ trace[j].page = p)
    /\ \A k \in DOMAIN json_written :
          "revision" \in DOMAIN json_written[k] => json_written[k].id # IdOfPage(p)
    /\ output_file # None =>
          /\ \A q \in 1..(p - 1) :
                \E j \in 1..(i - 1), k \in DOMAIN json_written :
                   /\ trace[j].kind = "json" /\ trace[j].page = q
                   /\ "revision" \in DOMAIN json_written[k]
                   /\ json_written[k].id = IdOfPage(q)
          /\ (\E n \in 1..(pos - 1) : input[n] = End("siteinfo")) =>
                \E j \in 1..(i - 1), k \in DOMAIN json_written :
                   /\ trace[j].kind = "siteinfo"
                   /\ "sitename" \in DOMAIN json_written[k]
    /\ pages_started = p
    /\ result = "Err"

\* C28: when the consumer fails while page p is classified, no
\* document and no error-log section is written for p, the documents of the
\* siteinfo and of the earlier pages have been handed to the sink, and no
\* later page is parsed.
C28_Cancellation ==
    \A i \in TraceIndex :
        ConsumerFailedAt(i) =>
            /\ CancelledAt(i)
            /\ \A j \in TraceIndex : ~(trace[j].kind = "log" /\ trace[j].page = trace[i].page)

\* What holds on every dump: no error-log section is written for the text
\* that was being classified; the section of an earlier revision of p stays.
CancellationOfText ==
    \A i \in TraceIndex :
        ConsumerFailedAt(i) =>
            /\ CancelledAt(i)
            /\ \A j \in TraceIndex :
                  ~(trace[j].kind = "log" /\ trace[j].page = trace[i].page
                        /\ trace[j].reads >= trace[i].reads)

\* The consumer failed on the second page, whose text has an unclosed brace:
\* the siteinfo and the first page were handed to the sink and the error
\* log holds nothing of the second page.
CancelledSecondPage ==
    /\ \E kind \in PageKinds : input = Dump(<<kind, "broken">>)
    /\ output_file # None
    /\ Len(trace) > 0 /\ ConsumerFailedAt(Len(trace))
    /\ trace[Len(trace)].page = 2
    /\ parse_wikitext(input[pos - 1].text, "cat").errors # <<>>
    /\ \A j \in TraceIndex : trace[j].kind = "log" => trace[j].page = 1
    /\ Len(json_written) = 2
    /\ result = "Err"

(***************************************************************************)
(* The end of the input.                                                   *)
(***************************************************************************)
\* The next event handed to a parser is the end of the input.
EofIsNext == result = "running" /\ input[next_relevant(input, pos)].kind = "Eof"

AtDocumentLevel == stack = <<>> /\ tag_stack = <<>>

HasElement(events) == \E n \in DOMAIN events : events[n].kind \in {"Start", "End", "Empty"}

\* C29: the run returns Ok exactly in the step that reads Eof at document
\* level with no open element; Eof read with <mediawiki> open or inside any
\* per-element parser ends the run with Err; nothing is delivered or written
\* by the step that reads Eof, so that an input without any element is
\* accepted with no Word, no document and no error-log entry.
C29_EndOfInput ==
    [][ /\ (result' = "Ok" /\ result # "Ok") => (EofIsNext /\ AtDocumentLevel)
        /\ EofIsNext =>
              /\ result' = (IF AtDocumentLevel THEN "Ok" ELSE "Err")
              /\ pos' = Len(input) + 1
              /\ UNCHANGED <<trace, json_written, error_log, call>>
              /\ ~HasElement(input) =>
                    /\ result' = "Ok"
                    /\ trace = <<>> /\ json_written = <<>> /\ error_log = <<>>
                    /\ output_stream'.file = <<>> ]_vars

\* The file ended right after <text ...>: the end of the input was read
\* inside the text element and the run returned Err.
C29_Witness ==
    /\ input \in TruncatedDumps
    /\ Len(input) > 1
    /\ input[Len(input) - 1].kind = "Start" /\ input[Len(input) - 1].name = "text"
    /\ pos = Len(input) + 1
    /\ result = "Err"

(***************************************************************************)
(* Termination.                                                            *)
(***************************************************************************)
\* Every step of a run reads at least one event, and the run has ended when
\* the last event has been read.
EveryStepReads ==
    [][pos' > pos /\ pos' <= Len(input) + 1 /\ (pos' = Len(input) + 1 => result' # "running")]_vars

\* Every run ends: it returns or it panics.
Ends == <>(result # "running")

\* C30: on every finite sequence of events that ends with Eof, with a word
\* consumer that always returns, the call of parse_dump_file returns Ok or
\* Err.
C30_Termination == <>(result \in {"Ok", "Err"})

(***************************************************************************)
(* The order of the rules that classify a section.                         *)
(***************************************************************************)
\* The rule that handles a direct child of a language section: the first
\* that matches.
Rule(label) ==
    IF label = "Etymology" \/ IsWordType(label) THEN 1
    ELSE IF starts_with(label, "Etymology") THEN 2
    ELSE IF IsIgnoredSubsection(label) THEN 3
    ELSE 4

HasRule(l, n) == \E label \in Children(l) : Rule(label) = n

\* What ParseDetails makes of the children of `parent`: a Word for a label
\* that matches WordType, whatever else it matches, nothing for one that
\* matches IgnoredSubsection, an error for any other.
RECURSIVE DetailsErrorsBelow(_, _)
DetailsErrorsBelow(n, parents) ==
    IF Len(parents) = 0 THEN <<>>
    ELSE (IF Rule(parents[1].headline.label) = n
          THEN UnknownDetailsErrors(parents[1].subsections)
          ELSE <<>>)
         \o DetailsErrorsBelow(n, SubSeq(parents, 2, Len(parents)))

IsRule2(label) == Rule(label) = 2

RuleWords(l) ==
    WordsBelow(IsRule2, Root.headline.label, l.headline.label, l.subsections)
        \o (IF HasRule(l, 1) THEN TopWords(l) ELSE <<>>)

RuleErrors(l) ==
    DetailsErrorsBelow(2, l.subsections)
        \o (IF HasRule(l, 1) THEN UnknownDetailsErrors(l.subsections) ELSE <<>>)
        \o (IF HasRule(l, 1) /\ HasRule(l, 2) THEN <<FoundBoth(l)>> ELSE <<>>)
        \o (IF HasRule(l, 2)
            THEN SelectSeq([k \in DOMAIN l.subsections |->
                               UnknownSubsection(l.subsections[k].headline.label)],
                           LAMBDA e : \E k \in DOMAIN l.subsections :
                               /\ e = UnknownSubsection(l.subsections[k].headline.label)
                               /\ Rule(l.subsections[k].headline.label) = 4)
            ELSE <<>>)

\* C31: each direct child of a language section is handled by the first of
\* the rules (1) "Etymology" or WordType, (2) starts with "Etymology",
\* (3) IgnoredSubsection, (4) unknown; the Words and the errors of the
\* section are those that these rules give, so that the children of a child
\* of rule (1) yield neither Word nor error, and a label that matches both
\* WordType and IgnoredSubsection yields a Word, as a child of the language
\* section and as a child of a section passed to ParseDetails.
C31_FirstRuleWins ==
    (WalkedToEnd /\ Len(Languages) = 1 /\ Processed(Languages[1])) =>
        /\ Delivered = RuleWords(Languages[1])
        /\ Errors = RuleErrors(Languages[1])

\* "Etymology Noun" matches WordType and IgnoredSubsection and starts with
\* "Etymology": it yields a Word, and its unknown child "Bar" goes unseen.
C31_Witness ==
    /\ WalkedToEnd /\ Len(Languages) = 1 /\ Processed(Languages[1])
    /\ Languages[1].subsections = <<Section(3, "Etymology Noun", <<Section(4, "Bar", <<>>)>>)>>
    /\ IsWordType("Etymology Noun") /\ IsIgnoredSubsection("Etymology Noun")
    /\ Delivered = <<Word("cat", Languages[1].headline.label, "Etymology Noun")>>
    /\ Errors = <<>>

(***************************************************************************)
(* The namespaces of the siteinfo.                                         *)
(***************************************************************************)
\* The relevant events between <namespaces> and the first </namespaces>
\* of the input, without the empty tags, which add and change nothing.
NamespacesBody ==
    LET open == CHOOSE i \in DOMAIN input :
                    /\ input[i] = Start("namespaces")
                    /\ \A j \in 1..(i - 1) : input[j] # Start("namespaces")
        close == CHOOSE i \in DOMAIN input :
                    /\ i > open /\ input[i] = End("namespaces")
                    /\ \A j \in (open + 1)..(i - 1) : input[j] # End("namespaces")
    IN  SelectSeq(SubSeq(input, open + 1, close - 1),
                  LAMBDA e : relevant(e) /\ e.kind # "Empty")

\* The k-th event of the body comes while a <namespace> waits for its text.
PendingAt(body, k) == k > 1 /\ body[k - 1].kind = "Start"

\* The three fatal cases: a <namespace> while another is pending, a
\* </namespace> while its <namespace> is pending, a text outside of one.
FatalAt(body, k) ==
    \/ body[k].kind = "Start" /\ body[k].name = "namespace" /\ PendingAt(body, k)
    \/ body[k].kind = "End" /\ body[k].name = "namespace" /\ PendingAt(body, k)
    \/ body[k].kind = "Text" /\ ~PendingAt(body, k)

\* One Namespace per <namespace> that is followed by its text, in order.
RECURSIVE NamedNamespaces(_, _)
NamedNamespaces(body, k) ==
    IF k >= Len(body) THEN <<>>
    ELSE (IF body[k].kind = "Start" /\ body[k + 1].kind = "Text"
          THEN <<[key |-> DecimalValue(try_get_attribute(body[k].attrs, "key")[1])[1],
                  case |-> try_get_attribute(body[k].attrs, "case")[1],
                  name |-> body[k + 1].text]>>
          ELSE <<>>)
         \o NamedNamespaces(body, k + 1)

\* C32: the siteinfo that is written carries one Namespace for each
\* <namespace> start tag with a text body, in document order, with the key
\* and the case of the tag and the text as name; an empty <namespace/> adds
\* none; the run fails exactly when a <namespace> comes while another is
\* pending, a </namespace> comes while its start is pending, or a text
\* comes outside of a pending <namespace>.
C32_NamespacesAsParsed ==
    /\ json_written # <<>> =>
          json_written[1].namespaces = NamedNamespaces(NamespacesBody, 1)
    /\ result # "running" =>
          /\ (result = "Err") = (\E k \in DOMAIN NamespacesBody : FatalAt(NamespacesBody, k))
          /\ (result = "Ok") = (json_written # <<>>)

\* A namespace with a text and its end tag, and an empty one: the siteinfo
\* holds the first only.
C32_Witness ==
    /\ result = "Ok"
    /\ \E k \in DOMAIN input : input[k].kind = "Empty" /\ input[k].name = "namespace"
    /\ Len(NamespacesBody) = 3
    /\ Len(json_written) = 1
    /\ NamespacesBody[3].kind = "End"
    /\ json_written[1].namespaces =
          <<[key |-> "-2", case |-> "first-letter", name |-> "Media"]>>

(***************************************************************************)
(* One classification per page.                                            *)
(***************************************************************************)
\* C33: the classifier is invoked at most once for a page: the Words and the
\* error-log section of one page all come from the same Text event, and a
\* page has at most one error-log section.
C33_ClassifiedOncePerPage ==
    /\ \A i, j \in TraceIndex :
          (/\ trace[i].kind \in {"word", "log"} /\ trace[j].kind \in {"word", "log"}
           /\ trace[i].page = trace[j].page) => trace[i].reads = trace[j].reads
    /\ \A i, j \in TraceIndex :
          (/\ trace[i].kind = "log" /\ trace[j].kind = "log"
           /\ trace[i].page = trace[j].page) => i = j

(***************************************************************************)
(* The title that the classifier and the error log are given.              *)
(***************************************************************************)
\* The document of a page has just been handed to write_all.
PageWritten ==
    /\ Len(trace) > 0 /\ trace[Len(trace)].kind = "json"
    /\ pos = trace[Len(trace)].reads + 1

WrittenPage == json_written[Len(json_written)]

\* C34: for a page that was parsed to its end and has a text body, the
\* title handed to the classifier is the title of the Page record, and so
\* is the title in the "Page:" line of its error-log section, wherever
\* <title> stands in the page.
C34_TitleOfRecordUsed ==
    (PageWritten /\ WrittenPage.revision.text # None) =>
        /\ call.title = WrittenPage.title
        /\ (\E i \in TraceIndex :
                trace[i].kind = "log" /\ trace[i].page = trace[Len(trace)].page) =>
              \E k \in DOMAIN error_log : error_log[k] = "Page: " \o WrittenPage.title

(***************************************************************************)
(* The assertion of parse_text.                                            *)
(***************************************************************************)
\* C35: assert!(text.is_none()) never fails: parse_text is never handed a
\* second Text event between the start and the end of one <text> element,
\* and no run ends with a panic.
C35_AssertionHolds ==
    /\ result # "Panic"
    /\ (Running("parse_text") /\ NextEvent.kind = "Text") => Top.text = None

(***************************************************************************)
(* A <text> element without a body.                                        *)
(***************************************************************************)
\* The position of the last <revision> start tag read so far.
RevisionStart ==
    CHOOSE i \in 1..(pos - 1) :
        /\ input[i].kind = "Start" /\ input[i].name = "revision"
        /\ \A j \in (i + 1)..(pos - 1) :
              ~(input[j].kind = "Start" /\ input[j].name = "revision")

\* C36: when </text> is read and no Text event came since <text>, the body
\* being empty or white space only, the run fails; the revision of a page
\* that is written is without text exactly when no <text> start tag stands
\* in it, the element being absent or in the empty form <text/>.
C36_TextWithoutBodyFatal ==
    [][ /\ (Running("parse_text") /\ NextEvent = End("text") /\ Top.text = None) =>
              result' = "Err"
        /\ PageWritten =>
              (WrittenPage.revision.text = None) =
                  ~\E j \in RevisionStart..(pos - 1) :
                       input[j].kind = "Start" /\ input[j].name = "text" ]_vars

\* A <text> start tag, white space and </text>: the run failed on </text>.
C36_Witness ==
    /\ input = Dump(<<"blank_body">>)
    /\ result = "Err"
    /\ input[pos - 1] = End("text")
    /\ input[pos - 2] = Text(" \t\r\n")
    /\ Len(json_written) <= 1

(***************************************************************************)
(* A language section with neither word types nor Etymology sections.      *)
(***************************************************************************)
\* C37: a language section with children, none of which is labelled
\* "Etymology", matches WordType or starts with "Etymology", yields no Word,
\* not even the "Unknown" stub, and no error: neither consumer is invoked,
\* and the unknown children are not reported.
C37_SilentSection ==
    (/\ WalkedToEnd /\ Len(Languages) = 1 /\ Processed(Languages[1])
     /\ \A label \in Children(Languages[1]) : Rule(label) \in {3, 4}) =>
        /\ Delivered = <<>>
        /\ Errors = <<>>
        /\ Order = <<>>

\* The children "Foo" and "Pronunciation", the first with a word type below
\* it: nothing was delivered and nothing reported.
C37_Witness ==
    /\ WalkedToEnd /\ Len(Languages) = 1 /\ Processed(Languages[1])
    /\ Len(Languages[1].subsections) = 2
    /\ Languages[1].subsections[1] = Section(3, "Foo", <<Section(4, "Noun", <<>>)>>)
    /\ Languages[1].subsections[2].headline.label = "Pronunciation"
    /\ Delivered = <<>> /\ Errors = <<>> /\ Order = <<>>

(***************************************************************************)
(* The tag stack of the document.                                          *)
(***************************************************************************)
\* C38: the tag stack of parse_dump_file_with_streams is empty or holds
\* "mediawiki" alone, in every state: the elements below <mediawiki> are
\* read by their parsers, and the top-level loop never sees a start tag at
\* depth 2 or more.
C38_TagStackShallow ==
    /\ tag_stack \in {<<>>, <<"mediawiki">>}
    /\ (result = "running" /\ stack = <<>> /\ NextEvent.kind = "Start") =>
          Len(tag_stack) <= 1

\* Four parsers deep in the second page, the tag stack holds "mediawiki".
C38_Witness ==
    /\ result = "running"
    /\ Len(stack) = 4
    /\ pages_started = 2
    /\ tag_stack = <<"mediawiki">>

(***************************************************************************)
(* A call of parse_dump_file that fails before parsing.                    *)
(***************************************************************************)
\* The call has failed on the name of the input file or on opening it.
FailedBeforeParsing == decoder = "rejected" \/ (decoder # "none" /\ file = None)

\* C39: when the extension of the input path is refused, or the input file
\* cannot be opened, the call returns Err without creating the output file
\* or the error log, and nothing is written.
C39_NothingCreatedOnEarlyFailure ==
    FailedBeforeParsing =>
        /\ result = "Err"
        /\ created = {}
        /\ output_stream = NoSink
        /\ json_written = <<>> /\ error_log = <<>>

\* The input file "dump.xml.bz2" is missing and an output file was asked
\* for: Err, and neither file exists.
C39_Witness ==
    /\ input_file = "dump.xml.bz2" /\ file = None
    /\ output_file = Some("words.json")
    /\ decoder = "bzip2"
    /\ result = "Err"
    /\ created = {}

\* C40: in the download loops, once a progress_delay of 0 has been replaced
\* by 1, retained_content_length_amount lies in 1..60, so its conversion to
\* usize succeeds; at every progress tick the deque of samples holds at least
\* one sample and, after the tick, at most retained_content_length_amount of
\* them; so the ETA always has a front sample and is never "-".
C40_HistoryBounded ==
    result # "starting" =>
       /\ progress_delay >= 1
       /\ retained_content_length_amount \in 1..60
       /\ Len(last_content_lengths) \in 1..retained_content_length_amount
       /\ eta # Some("-")

\* With a delay of one second the deque has filled up to its sixty samples
\* and a progress line with an ETA has been logged.
C40_Witness ==
    /\ result = "running"
    /\ progress_delay = 1
    /\ retained_content_length_amount = 60
    /\ Len(last_content_lengths) = 60
    /\ last_content_lengths[1].content_length > 0
    /\ eta = Some("duration")

====
